---- MODULE Spec2Model ----
(***************************************************************************)
(* levelcache: a two-level cache (in-process ccache LRU, then redis) in    *)
(* front of a batch loader.  The model follows cacheImpl (MGet, MSet,      *)
(* MDel and their helpers), Options.isValid and NewCache.                  *)
(*                                                                         *)
(* Time is a tick counter.  A tick stands for one millisecond, the unit of *)
(* the timeouts, and a second has Second ticks: the envelope stores        *)
(* ModifyTime in whole seconds (time.Now().Unix()) while the timeouts and  *)
(* the clock are finer, and the model keeps that difference.               *)
(***************************************************************************)
EXTENDS Integers, Sequences, FiniteSets, TLC

\* ------------------------------------------------------------------ bounds
Keys == {"k1", "k2"}
Values == {"va", "vb"}
Millisecond == 1
Second == 3
Horizon == 3
MaxCalls == 3
MaxFaults == 1
StartTime == Second
MaxTime == StartTime + Horizon

\* ------------------------------------------------------------------ helpers
EmptyMap == [x \in {} |-> TRUE]
Put(m, k, v) == [x \in (DOMAIN m) \cup {k} |-> IF x = k THEN v ELSE m[x]]
Merge(m, n) == [x \in (DOMAIN m) \cup (DOMAIN n) |-> IF x \in DOMAIN n THEN n[x] ELSE m[x]]
Range(s) == {s[i] : i \in DOMAIN s}
Maps(D, R) == UNION {[S -> R] : S \in SUBSET D}

\* substract(x, y): the elements of x that are not in y, in x's order
substract(x, y) == SelectSeq(x, LAMBDA e : e \notin Range(y))

\* ------------------------------------------------------------------ codec
\* A byte string is a record.  A payload is plain or a snappy frame;
\* NilBytes is Go's nil slice, equal in content to the empty payload.
Plain(s) == [enc |-> "plain", body |-> s]
NilBytes == Plain("")
CompressionType_None == 0
CompressionType_Snappy == 1

\* missBytes = []byte("")
missBytes == [fmt |-> "empty"]

compress(compressionType, bs) ==
  CASE compressionType = CompressionType_None -> bs
    [] compressionType = CompressionType_Snappy -> [enc |-> "snappy", body |-> bs.body]
    [] OTHER -> bs

\* the error path returns (nil, err)
decompress(compressionType, bs) ==
  CASE compressionType = CompressionType_None -> [raw |-> bs, err |-> FALSE]
    [] compressionType = CompressionType_Snappy ->
         IF bs.enc = "snappy" THEN [raw |-> Plain(bs.body), err |-> FALSE]
         ELSE [raw |-> NilBytes, err |-> TRUE]
    [] OTHER -> [raw |-> NilBytes, err |-> TRUE]

\* proto.Marshal(&Data{Raw, ModifyTime, CompressionType}); proto3 writes no
\* field that has its zero value, so the zero Data marshals to no bytes at all
Marshal(data) ==
  IF data.Raw = NilBytes /\ data.ModifyTime = 0 /\ data.CompressionType = CompressionType_None
  THEN missBytes
  ELSE [fmt |-> "pb", raw |-> data.Raw, mt |-> data.ModifyTime, ct |-> data.CompressionType]

Unmarshal(bs) ==
  CASE bs.fmt = "pb" ->
         [ok |-> TRUE,
          data |-> [Raw |-> bs.raw, ModifyTime |-> bs.mt, CompressionType |-> bs.ct]]
    [] bs.fmt = "empty" ->
         [ok |-> TRUE,
          data |-> [Raw |-> NilBytes, ModifyTime |-> 0, CompressionType |-> CompressionType_None]]
    [] OTHER -> [ok |-> FALSE, data |-> [Raw |-> NilBytes, ModifyTime |-> 0, CompressionType |-> CompressionType_None]]

\* time.Now().Unix(): whole seconds
Unix(t) == t \div Second
\* time.Unix(sec, 0), on the tick clock
UnixTime(sec) == sec * Second

\* ------------------------------------------------------------------ options
NoOptions == [nil |-> TRUE]

LRUOpt(size, timeout, missTimeout) ==
  [nil |-> FALSE, Size |-> size, Timeout |-> timeout, MissTimeout |-> missTimeout]

RedisOpt(client, prefix, hard, soft, missTimeout) ==
  [nil |-> FALSE, Client |-> client, Prefix |-> prefix, HardTimeout |-> hard,
   SoftTimeout |-> soft, MissTimeout |-> missTimeout]

\* the local-tier options tried: two that the tests' shape (Timeout above
\* MissTimeout, MissTimeout zero) allows, and four that isValid rejects
LRUChoices ==
  {NoOptions, LRUOpt(2, 2, 1), LRUOpt(2, 1, 0),
   LRUOpt(0, 2, 1), LRUOpt(2, 0, 0), LRUOpt(2, 1, 1), LRUOpt(2, 2, -1)}

RedisChoices ==
  {NoOptions, RedisOpt("client", "lc", 3, 1, 1), RedisOpt("client", "lc", 3, 2, 1),
   RedisOpt("client", "lc", 3, 2, 0),
   RedisOpt("nil", "lc", 3, 1, 1), RedisOpt("client", "", 3, 1, 1),
   RedisOpt("client", "lc", 3, 1, -1)}

\* Options{LRUCacheOptions, RedisCacheOptions, Loader, CompressionType};
\* Loader is TRUE when a loader function is given.  The single-tier layouts
\* and the rejected options are tried with a loader and no compression, then
\* three two-level caches; snappy and a compression type the enum does not
\* name are tried on a redis-only cache, a nil loader on a two-level one.
OptionsChoices ==
  [LRUCacheOptions : LRUChoices, RedisCacheOptions : {NoOptions},
   Loader : {TRUE}, CompressionType : {CompressionType_None}]
  \cup [LRUCacheOptions : {NoOptions},
        RedisCacheOptions : RedisChoices \ {RedisOpt("client", "lc", 3, 2, 1)},
        Loader : {TRUE}, CompressionType : {CompressionType_None}]
  \cup {[LRUCacheOptions |-> LRUOpt(2, 2, 1), RedisCacheOptions |-> RedisOpt("client", "lc", 3, 1, 1),
         Loader |-> TRUE, CompressionType |-> CompressionType_None],
        [LRUCacheOptions |-> LRUOpt(2, 1, 0), RedisCacheOptions |-> RedisOpt("client", "lc", 3, 2, 1),
         Loader |-> TRUE, CompressionType |-> CompressionType_None],
        [LRUCacheOptions |-> LRUOpt(2, 2, 1), RedisCacheOptions |-> RedisOpt("client", "lc", 3, 2, 0),
         Loader |-> TRUE, CompressionType |-> CompressionType_None]}
  \cup [LRUCacheOptions : {NoOptions}, RedisCacheOptions : {RedisOpt("client", "lc", 3, 1, 1)},
        Loader : {TRUE}, CompressionType : {CompressionType_Snappy, 2}]
  \cup {[LRUCacheOptions |-> LRUOpt(2, 2, 1), RedisCacheOptions |-> RedisOpt("client", "lc", 3, 2, 1),
         Loader |-> FALSE, CompressionType |-> CompressionType_Snappy]}

\* a validation that lets the miss timeout be as long as the timeout
LRUCacheOptions_isValid_atTimeout(options) ==
  IF options.nil THEN TRUE
  ELSE IF options.Size <= 0 THEN FALSE
  ELSE IF options.MissTimeout # 0 /\ options.MissTimeout < Millisecond THEN FALSE
  ELSE IF options.Timeout <= 0 \/ (options.MissTimeout # 0 /\ options.Timeout < options.MissTimeout)
       THEN FALSE
  ELSE TRUE

LRUCacheOptions_isValid(options) ==
  IF options.nil THEN TRUE
  ELSE IF options.Size <= 0 THEN FALSE
  ELSE IF options.MissTimeout # 0 /\ options.MissTimeout < Millisecond THEN FALSE
  ELSE IF options.Timeout <= 0 \/ (options.MissTimeout # 0 /\ options.Timeout <= options.MissTimeout)
       THEN FALSE
  ELSE TRUE

RedisCacheOptions_isValid(options) ==
  IF options.nil THEN TRUE
  ELSE IF options.Client = "nil" THEN FALSE
  ELSE IF options.Prefix = "" THEN FALSE
  ELSE IF options.MissTimeout # 0 /\ options.MissTimeout < Millisecond THEN FALSE
  ELSE TRUE

Options_isValid(options) ==
  IF options = NoOptions THEN FALSE
  ELSE IF options.LRUCacheOptions.nil /\ options.RedisCacheOptions.nil THEN FALSE
  ELSE IF ~LRUCacheOptions_isValid(options.LRUCacheOptions) THEN FALSE
  ELSE IF ~RedisCacheOptions_isValid(options.RedisCacheOptions) THEN FALSE
  ELSE TRUE

\* NewCache(name, options) panics unless the name is non-empty and the
\* options are valid; otherwise it returns the cache
NewCache(name, options) == name # "" /\ Options_isValid(options)

\* ------------------------------------------------------------------ state
VARIABLES
  options,   \* cache.options, fixed at construction
  now,       \* the clock, in ticks
  lruData,   \* the ccache store: key -> item
  redis,     \* the redis server: redis key -> entry
  last,      \* transcript of the last call: its input, what it read, what it returned
  missed,    \* per key: ticks since the loader last confirmed a miss, -1 when none stands
  calls,     \* number of calls made
  faults,    \* number of calls in which a redis command failed
  name,      \* the name given to NewCache
  constructed, \* "no" before NewCache is called, then "yes", or "panic"
  inflight,  \* per caller: the MGet it is in, when calls are made step by step
  evicted    \* the keys the local store has dropped for want of room

vars == <<options, now, lruData, redis, last, missed, calls, faults,
          name, constructed, inflight, evicted>>

\* ---- ccache (github.com/karlseguin/ccache): Get returns expired items too
NoItem == [has |-> FALSE]
lruData_Get(l, key) == l[key]
\* a ccache whose items count as expired from the instant their ttl runs out
Expired_atDeadline(item) == item.ttl <= 0
\* Item.Expired(): expires < now; ttl is expires - now, kept down to -1
Expired(item) == item.ttl < 0
lruData_Set(l, key, bs, duration) ==
  [l EXCEPT ![key] = [has |-> TRUE, bs |-> bs, ttl |-> duration]]
\* a Delete that leaves the item in place
lruData_Delete_keep(l, key) == l
lruData_Delete(l, key) == [l EXCEPT ![key] = NoItem]

\* ---- redis: SET key value [PX ttl]; a ttl of 0 is no expiry
\* a redis key without the prefix
mkRedisKey_bare(key) == key

mkRedisKey(key) ==
  IF ~options.RedisCacheOptions.nil THEN options.RedisCacheOptions.Prefix \o "_" \o key
  ELSE key
RedisKeys == {mkRedisKey(k) : k \in Keys}
redis_Set(r, rkey, bs, expiration) ==
  [r EXCEPT ![rkey] = [has |-> TRUE, bs |-> bs, ttl |-> IF expiration > 0 THEN expiration ELSE 0]]
\* a DEL that removes nothing
redis_Del_nothing(r, rkeys) == r
redis_Del(r, rkeys) == [k \in DOMAIN r |-> IF k \in rkeys THEN NoItem ELSE r[k]]


\* ------------------------------------------------------------------ MGet, local pass
\* a local pass that reads past a miss marker, expired or not
lruStep_markerMiss(l, key, acc) ==
  LET item == lruData_Get(l, key)
      miss == [acc EXCEPT !.missKeys = Append(@, key)]
  IN IF item.has
     THEN IF item.bs = missBytes
          THEN miss
          ELSE LET u == Unmarshal(item.bs)
               IN IF ~u.ok THEN miss
                  ELSE LET got == [acc EXCEPT !.valuesMap = Put(@, key, u.data.Raw)]
                       IN IF ~Expired(item)
                          THEN [got EXCEPT !.validsMap = Put(@, key, TRUE)]
                          ELSE [got EXCEPT !.missKeys = Append(@, key)]
     ELSE miss

\* a local pass that takes an expired value record for a plain miss
lruStep_dropExpired(l, key, acc) ==
  LET item == lruData_Get(l, key)
      miss == [acc EXCEPT !.missKeys = Append(@, key)]
  IN IF item.has
     THEN IF item.bs = missBytes
          THEN (IF Expired(item) THEN miss ELSE acc)
          ELSE LET u == Unmarshal(item.bs)
               IN IF ~u.ok THEN miss
                  ELSE IF ~Expired(item)
                       THEN [acc EXCEPT !.valuesMap = Put(@, key, u.data.Raw),
                                        !.validsMap = Put(@, key, TRUE)]
                       ELSE miss
     ELSE miss

\* a local pass for which a miss marker ends the key, expired or not
lruStep_markerTerminal(l, key, acc) ==
  LET item == lruData_Get(l, key)
      miss == [acc EXCEPT !.missKeys = Append(@, key)]
  IN IF item.has
     THEN IF item.bs = missBytes
          THEN acc
          ELSE LET u == Unmarshal(item.bs)
               IN IF ~u.ok THEN miss
                  ELSE LET got == [acc EXCEPT !.valuesMap = Put(@, key, u.data.Raw)]
                       IN IF ~Expired(item)
                          THEN [got EXCEPT !.validsMap = Put(@, key, TRUE)]
                          ELSE [got EXCEPT !.missKeys = Append(@, key)]
     ELSE miss

\* a local pass that marks an expired value as not valid in the valid map
lruStep_explicitFalse(l, key, acc) ==
  LET item == lruData_Get(l, key)
      miss == [acc EXCEPT !.missKeys = Append(@, key)]
  IN IF item.has
     THEN IF item.bs = missBytes
          THEN (IF Expired(item) THEN miss ELSE acc)
          ELSE LET u == Unmarshal(item.bs)
               IN IF ~u.ok THEN miss
                  ELSE LET got == [acc EXCEPT !.valuesMap = Put(@, key, u.data.Raw)]
                       IN IF ~Expired(item)
                          THEN [got EXCEPT !.validsMap = Put(@, key, TRUE)]
                          ELSE [got EXCEPT !.validsMap = Put(@, key, FALSE),
                                           !.missKeys = Append(@, key)]
     ELSE miss

\* One iteration of mGetFromLRUCache's loop, on acc = [missKeys, valuesMap, validsMap]
lruStep(l, key, acc) ==
  LET item == lruData_Get(l, key)
      miss == [acc EXCEPT !.missKeys = Append(@, key)]
  IN IF item.has
     THEN IF item.bs = missBytes
          THEN (IF Expired(item) THEN miss ELSE acc)
          ELSE LET u == Unmarshal(item.bs)
               IN IF ~u.ok THEN miss
                  ELSE LET got == [acc EXCEPT !.valuesMap = Put(@, key, u.data.Raw)]
                       IN IF ~Expired(item)
                          THEN [got EXCEPT !.validsMap = Put(@, key, TRUE)]
                          ELSE [got EXCEPT !.missKeys = Append(@, key)]
     ELSE miss

RECURSIVE lruLoop(_, _, _, _)
lruLoop(l, keys, i, acc) ==
  IF i > Len(keys) THEN acc ELSE lruLoop(l, keys, i + 1, lruStep(l, keys[i], acc))

\* a local pass that goes through the keys from the last to the first
mGetFromLRUCache_backwards(l, keys, valuesMap, validsMap) ==
  IF options.LRUCacheOptions.nil \/ Len(keys) = 0
  THEN [missKeys |-> keys, valuesMap |-> valuesMap, validsMap |-> validsMap]
  ELSE lruLoop(l, [i \in 1..Len(keys) |-> keys[Len(keys) + 1 - i]], 1,
               [missKeys |-> << >>, valuesMap |-> valuesMap, validsMap |-> validsMap])

mGetFromLRUCache(l, keys, valuesMap, validsMap) ==
  IF options.LRUCacheOptions.nil \/ Len(keys) = 0
  THEN [missKeys |-> keys, valuesMap |-> valuesMap, validsMap |-> validsMap]
  ELSE lruLoop(l, keys, 1, [missKeys |-> << >>, valuesMap |-> valuesMap, validsMap |-> validsMap])

\* ------------------------------------------------------------------ MGet, remote pass
\* cmds[i].Bytes(): the reply to GET, an error when the command failed or
\* the key does not exist (redis.Nil)
redis_Get(r, key, failed) ==
  LET e == r[mkRedisKey(key)]
  IN IF key \in failed \/ ~e.has THEN [err |-> TRUE, bs |-> missBytes]
     ELSE [err |-> FALSE, bs |-> e.bs]

\* a freshness test against the hard TTL instead of the soft one
softFresh_hard(t, data) == t - UnixTime(data.ModifyTime) <= options.RedisCacheOptions.HardTimeout
\* now.Sub(time.Unix(data.ModifyTime, 0)) <= options.SoftTimeout
softFresh(t, data) == t - UnixTime(data.ModifyTime) <= options.RedisCacheOptions.SoftTimeout

\* a remote pass that drops a key whose GET failed instead of carrying it on
redisStep_errSkips(r, key, failed, acc) ==
  LET reply == redis_Get(r, key, failed)
      miss == [acc EXCEPT !.missKeys = Append(@, key)]
  IN IF reply.err THEN acc
     ELSE IF reply.bs = missBytes THEN acc
     ELSE LET u == Unmarshal(reply.bs)
          IN IF ~u.ok THEN miss
             ELSE LET raw == decompress(u.data.CompressionType, u.data.Raw).raw
                  IN IF softFresh(now, u.data)
                     THEN [acc EXCEPT !.valuesMap = Put(@, key, raw),
                                      !.validsMap = Put(@, key, TRUE)]
                     ELSE [acc EXCEPT !.valuesMap = IF key \in DOMAIN @ THEN @ ELSE Put(@, key, raw),
                                      !.missKeys = Append(@, key)]

\* a remote pass that takes a record older than the soft timeout for a hit
redisStep_staleHit(r, key, failed, acc) ==
  LET reply == redis_Get(r, key, failed)
      miss == [acc EXCEPT !.missKeys = Append(@, key)]
  IN IF reply.err THEN miss
     ELSE IF reply.bs = missBytes THEN acc
     ELSE LET u == Unmarshal(reply.bs)
          IN IF ~u.ok THEN miss
             ELSE LET raw == decompress(u.data.CompressionType, u.data.Raw).raw
                  IN IF softFresh(now, u.data)
                     THEN [acc EXCEPT !.valuesMap = Put(@, key, raw),
                                      !.validsMap = Put(@, key, TRUE)]
                     ELSE [acc EXCEPT !.valuesMap = IF key \in DOMAIN @ THEN @ ELSE Put(@, key, raw)]

\* a remote pass whose stale value replaces the local tier's candidate
redisStep_remoteWins(r, key, failed, acc) ==
  LET reply == redis_Get(r, key, failed)
      miss == [acc EXCEPT !.missKeys = Append(@, key)]
  IN IF reply.err THEN miss
     ELSE IF reply.bs = missBytes THEN acc
     ELSE LET u == Unmarshal(reply.bs)
          IN IF ~u.ok THEN miss
             ELSE LET raw == decompress(u.data.CompressionType, u.data.Raw).raw
                  IN IF softFresh(now, u.data)
                     THEN [acc EXCEPT !.valuesMap = Put(@, key, raw),
                                      !.validsMap = Put(@, key, TRUE)]
                     ELSE [acc EXCEPT !.valuesMap = Put(@, key, raw),
                                      !.missKeys = Append(@, key)]

\* One iteration of the loop over the replies
redisStep(r, key, failed, acc) ==
  LET reply == redis_Get(r, key, failed)
      miss == [acc EXCEPT !.missKeys = Append(@, key)]
  IN IF reply.err THEN miss
     ELSE IF reply.bs = missBytes THEN acc
     ELSE LET u == Unmarshal(reply.bs)
          IN IF ~u.ok THEN miss
             ELSE LET raw == decompress(u.data.CompressionType, u.data.Raw).raw
                  IN IF softFresh(now, u.data)
                     THEN [acc EXCEPT !.valuesMap = Put(@, key, raw),
                                      !.validsMap = Put(@, key, TRUE)]
                     ELSE [acc EXCEPT !.valuesMap = IF key \in DOMAIN @ THEN @ ELSE Put(@, key, raw),
                                      !.missKeys = Append(@, key)]

RECURSIVE redisLoop(_, _, _, _, _)
redisLoop(r, keys, i, failed, acc) ==
  IF i > Len(keys) THEN acc
  ELSE redisLoop(r, keys, i + 1, failed, redisStep(r, keys[i], failed, acc))

mGetFromRedisCache(r, keys, valuesMap, validsMap, failed) ==
  IF options.RedisCacheOptions.nil \/ Len(keys) = 0
  THEN [missKeys |-> keys, valuesMap |-> valuesMap, validsMap |-> validsMap]
  ELSE redisLoop(r, keys, 1, failed,
                 [missKeys |-> << >>, valuesMap |-> valuesMap, validsMap |-> validsMap])

\* ------------------------------------------------------------------ writes
\* a local write that leaves the miss markers out
mSetLRUCache_noMarkers(l, kvs, missKeys) ==
  IF options.LRUCacheOptions.nil THEN l
  ELSE [k \in Keys |->
          IF k \in DOMAIN kvs
          THEN lruData_Set(l, k,
                 Marshal([Raw |-> kvs[k], ModifyTime |-> Unix(now),
                          CompressionType |-> CompressionType_None]),
                 options.LRUCacheOptions.Timeout)[k]
          ELSE l[k]]
\* the value records first, then the miss markers
mSetLRUCache(l, kvs, missKeys) ==
  IF options.LRUCacheOptions.nil THEN l
  ELSE [k \in Keys |->
          IF options.LRUCacheOptions.MissTimeout # 0 /\ k \in Range(missKeys)
          THEN lruData_Set(l, k, missBytes, options.LRUCacheOptions.MissTimeout)[k]
          ELSE IF k \in DOMAIN kvs
          THEN lruData_Set(l, k,
                 Marshal([Raw |-> kvs[k], ModifyTime |-> Unix(now),
                          CompressionType |-> CompressionType_None]),
                 options.LRUCacheOptions.Timeout)[k]
          ELSE l[k]]

\* a pipeline that queues the miss markers whatever the miss timeout is
redisSetCmds_alwaysMarks(kvs, missKeys) ==
  LET sets == [k \in DOMAIN kvs |->
                 [bs |-> Marshal([Raw |-> compress(options.CompressionType, kvs[k]),
                                  ModifyTime |-> Unix(now),
                                  CompressionType |-> options.CompressionType]),
                  expiration |-> options.RedisCacheOptions.HardTimeout]]
      marks == [k \in Range(missKeys) |->
                  [bs |-> missBytes, expiration |-> options.RedisCacheOptions.MissTimeout]]
  IN Merge(sets, marks)

\* the commands the pipeline queues, as key -> [bs, expiration]
redisSetCmds(kvs, missKeys) ==
  LET sets == [k \in DOMAIN kvs |->
                 [bs |-> Marshal([Raw |-> compress(options.CompressionType, kvs[k]),
                                  ModifyTime |-> Unix(now),
                                  CompressionType |-> options.CompressionType]),
                  expiration |-> options.RedisCacheOptions.HardTimeout]]
      marks == IF options.RedisCacheOptions.MissTimeout >= Millisecond
               THEN [k \in Range(missKeys) |->
                       [bs |-> missBytes, expiration |-> options.RedisCacheOptions.MissTimeout]]
               ELSE EmptyMap
  IN Merge(sets, marks)

\* pipe.Exec(): with fault.setFail the round trip fails and only the commands
\* for the keys in fault.applied have reached the server
mSetRedisCache(r, kvs, missKeys, fault) ==
  IF options.RedisCacheOptions.nil THEN [redis |-> r, err |-> FALSE]
  ELSE LET cmds == redisSetCmds(kvs, missKeys)
           done == IF fault.setFail THEN (DOMAIN cmds) \cap fault.applied ELSE DOMAIN cmds
       IN [redis |-> [rk \in DOMAIN r |->
                        IF \E k \in done : mkRedisKey(k) = rk
                        THEN LET k == CHOOSE k \in done : mkRedisKey(k) = rk
                             IN redis_Set(r, rk, cmds[k].bs, cmds[k].expiration)[rk]
                        ELSE r[rk]],
           err |-> fault.setFail /\ cmds # EmptyMap]

\* a write that reaches the local tier only when the remote write succeeded
mSet_remoteFirst(l, r, kvs, missKeys, fault) ==
  IF kvs = EmptyMap /\ Len(missKeys) = 0 THEN [lruData |-> l, redis |-> r, err |-> FALSE]
  ELSE LET w == mSetRedisCache(r, kvs, missKeys, fault)
       IN [lruData |-> IF w.err THEN l ELSE mSetLRUCache(l, kvs, missKeys),
           redis |-> w.redis, err |-> w.err]

mSet(l, r, kvs, missKeys, fault) ==
  IF kvs = EmptyMap /\ Len(missKeys) = 0 THEN [lruData |-> l, redis |-> r, err |-> FALSE]
  ELSE LET w == mSetRedisCache(r, kvs, missKeys, fault)
       IN [lruData |-> mSetLRUCache(l, kvs, missKeys), redis |-> w.redis, err |-> w.err]


\* ------------------------------------------------------------------ environment
MaxBatch == 2
\* the key lists given to MGet and MDel: no key twice
KeyLists ==
  {s \in UNION {[1..n -> Keys] : n \in 0..MaxBatch} :
     \A i, j \in DOMAIN s : s[i] = s[j] => i = j}

\* What redis does to a call.  With faulty FALSE every command is answered;
\* with faulty TRUE the round trip of the GET pipeline, of the SET pipeline
\* or of the DEL may fail, in at most MaxFaults calls.
\* the sets of keys whose GET fails: none, or every key of the pipeline
GetFails(faulty, keys) ==
  IF faulty /\ faults < MaxFaults /\ ~options.RedisCacheOptions.nil THEN {{}, Range(keys)} ELSE {{}}
\* a SET pipeline over the keys written: it succeeds, or it fails after the
\* commands of the keys in applied have reached the server
SetOk == [setFail |-> FALSE, applied |-> {}]
SetFails(faulty, written) ==
  IF faulty /\ faults < MaxFaults /\ ~options.RedisCacheOptions.nil /\ written # {}
  THEN {SetOk} \cup {[setFail |-> TRUE, applied |-> a] : a \in SUBSET written}
  ELSE {SetOk}
DelFails(faulty, keys) ==
  IF faulty /\ faults < MaxFaults /\ ~options.RedisCacheOptions.nil /\ Len(keys) # 0 THEN BOOLEAN ELSE {FALSE}

\* What the loader answers to a request: values for some of the requested
\* keys, or an error and no values
NoOutcome == [values |-> EmptyMap, err |-> FALSE]
LoaderOutcomes(req) ==
  {[values |-> m, err |-> FALSE] : m \in Maps(Range(req), {Plain(v) : v \in Values})}
  \cup {[values |-> EmptyMap, err |-> TRUE]}

\* the longest time a miss marker written now stays readable in a tier
NegativeTTL ==
  LET l == IF options.LRUCacheOptions.nil THEN 0 ELSE options.LRUCacheOptions.MissTimeout
      r == IF options.RedisCacheOptions.nil \/ options.RedisCacheOptions.MissTimeout < Millisecond
           THEN 0 ELSE options.RedisCacheOptions.MissTimeout
  IN IF l > r THEN l ELSE r

\* an early return that hands back empty maps instead of nil ones
NoCall_emptyMaps ==
  [op |-> "none", keys |-> << >>, kvs |-> EmptyMap, at |-> 0,
   isNil |-> FALSE, values |-> EmptyMap, valids |-> EmptyMap, err |-> "nil",
   lruGot |-> EmptyMap, redisGets |-> << >>, redisGot |-> EmptyMap,
   loaderReqs |-> << >>, loaderOut |-> NoOutcome]

NoCall ==
  [op |-> "none", keys |-> << >>, kvs |-> EmptyMap, at |-> 0,
   isNil |-> TRUE, values |-> EmptyMap, valids |-> EmptyMap, err |-> "nil",
   lruGot |-> EmptyMap, redisGets |-> << >>, redisGot |-> EmptyMap,
   loaderReqs |-> << >>, loaderOut |-> NoOutcome]

\* ------------------------------------------------------------------ MGet
\* an MGet that goes on to the loader step although no loader is configured
mGetTiers_nilLoader(keys, getFail, p1, p2) ==
  LET lruMissKeys == p1.missKeys
      redisMissKeys == p2.missKeys
      redisHitKeys == substract(lruMissKeys, redisMissKeys)
      redisValues == [k \in {x \in Range(redisHitKeys) : x \in DOMAIN p2.valuesMap} |-> p2.valuesMap[k]]
      emptyKeys == SelectSeq(redisHitKeys, LAMBDA k : k \notin DOMAIN p2.valuesMap)
      atRedis == Len(lruMissKeys) # 0
  IN [lruMissKeys |-> lruMissKeys,
      redisMissKeys |-> IF atRedis THEN redisMissKeys ELSE << >>,
      valuesMap |-> IF atRedis THEN p2.valuesMap ELSE p1.valuesMap,
      validsMap |-> IF atRedis THEN p2.validsMap ELSE p1.validsMap,
      lruData |-> IF atRedis /\ Len(redisHitKeys) > 0
                  THEN mSetLRUCache(lruData, redisValues, emptyKeys) ELSE lruData,
      lruGot |-> IF options.LRUCacheOptions.nil THEN EmptyMap
                 ELSE [k \in Range(keys) |-> lruData_Get(lruData, k)],
      redisGets |-> IF atRedis /\ ~options.RedisCacheOptions.nil THEN <<lruMissKeys>> ELSE << >>,
      redisGot |-> IF atRedis /\ ~options.RedisCacheOptions.nil
                   THEN [k \in Range(lruMissKeys) |-> redis_Get(redis, k, getFail)]
                   ELSE EmptyMap,
      loads |-> atRedis /\ Len(redisMissKeys) # 0]

\* an MGet that does not write the remote hits to the local tier
mGetTiers_noWarm(keys, getFail, p1, p2) ==
  LET lruMissKeys == p1.missKeys
      redisMissKeys == p2.missKeys
      atRedis == Len(lruMissKeys) # 0
  IN [lruMissKeys |-> lruMissKeys,
      redisMissKeys |-> IF atRedis THEN redisMissKeys ELSE << >>,
      valuesMap |-> IF atRedis THEN p2.valuesMap ELSE p1.valuesMap,
      validsMap |-> IF atRedis THEN p2.validsMap ELSE p1.validsMap,
      lruData |-> lruData,
      lruGot |-> IF options.LRUCacheOptions.nil THEN EmptyMap
                 ELSE [k \in Range(keys) |-> lruData_Get(lruData, k)],
      redisGets |-> IF atRedis /\ ~options.RedisCacheOptions.nil THEN <<lruMissKeys>> ELSE << >>,
      redisGot |-> IF atRedis /\ ~options.RedisCacheOptions.nil
                   THEN [k \in Range(lruMissKeys) |-> redis_Get(redis, k, getFail)]
                   ELSE EmptyMap,
      loads |-> atRedis /\ Len(redisMissKeys) # 0 /\ options.Loader]

\* MGet up to the loader call, given p1, what mGetFromLRUCache returned, and
\* p2, what mGetFromRedisCache returned for p1's miss keys: the early
\* returns and the write of the remote hits to the local tier
mGetTiers(keys, getFail, p1, p2) ==
  LET lruMissKeys == p1.missKeys
      redisMissKeys == p2.missKeys
      redisHitKeys == substract(lruMissKeys, redisMissKeys)
      redisValues == [k \in {x \in Range(redisHitKeys) : x \in DOMAIN p2.valuesMap} |-> p2.valuesMap[k]]
      emptyKeys == SelectSeq(redisHitKeys, LAMBDA k : k \notin DOMAIN p2.valuesMap)
      atRedis == Len(lruMissKeys) # 0
  IN [lruMissKeys |-> lruMissKeys,
      redisMissKeys |-> IF atRedis THEN redisMissKeys ELSE << >>,
      valuesMap |-> IF atRedis THEN p2.valuesMap ELSE p1.valuesMap,
      validsMap |-> IF atRedis THEN p2.validsMap ELSE p1.validsMap,
      lruData |-> IF atRedis /\ Len(redisHitKeys) > 0
                  THEN mSetLRUCache(lruData, redisValues, emptyKeys) ELSE lruData,
      lruGot |-> IF options.LRUCacheOptions.nil THEN EmptyMap
                 ELSE [k \in Range(keys) |-> lruData_Get(lruData, k)],
      redisGets |-> IF atRedis /\ ~options.RedisCacheOptions.nil THEN <<lruMissKeys>> ELSE << >>,
      redisGot |-> IF atRedis /\ ~options.RedisCacheOptions.nil
                   THEN [k \in Range(lruMissKeys) |-> redis_Get(redis, k, getFail)]
                   ELSE EmptyMap,
      loads |-> atRedis /\ Len(redisMissKeys) # 0 /\ options.Loader]

\* a loader failure that aborts the call: nothing of the tier passes is returned
mGetLoad_abort(t, out, fault) ==
  LET valuesMap == Merge(t.valuesMap, out.values)
      validsMap == Merge(t.validsMap, [k \in DOMAIN out.values |-> TRUE])
      loaderMissKeys == SelectSeq(t.redisMissKeys, LAMBDA k : k \notin DOMAIN out.values)
      w == mSet(t.lruData, redis, out.values, loaderMissKeys, fault)
  IN IF out.err
     THEN [lruData |-> t.lruData, redis |-> redis, valuesMap |-> EmptyMap,
           validsMap |-> EmptyMap, err |-> "loader"]
     ELSE [lruData |-> w.lruData, redis |-> w.redis, valuesMap |-> valuesMap,
           validsMap |-> validsMap, err |-> IF w.err THEN "redis" ELSE "nil"]

\* a write-back that is made before the loader's error is looked at
mGetLoad_writesOnError(t, out, fault) ==
  LET valuesMap == Merge(t.valuesMap, out.values)
      validsMap == Merge(t.validsMap, [k \in DOMAIN out.values |-> TRUE])
      loaderMissKeys == SelectSeq(t.redisMissKeys, LAMBDA k : k \notin DOMAIN out.values)
      w == mSet(t.lruData, redis, out.values, loaderMissKeys, fault)
  IN [lruData |-> w.lruData, redis |-> w.redis, valuesMap |-> valuesMap,
      validsMap |-> validsMap,
      err |-> IF out.err THEN "loader" ELSE IF w.err THEN "redis" ELSE "nil"]

\* a failed write-back that takes the answer with it
mGetLoad_failClears(t, out, fault) ==
  LET valuesMap == Merge(t.valuesMap, out.values)
      validsMap == Merge(t.validsMap, [k \in DOMAIN out.values |-> TRUE])
      loaderMissKeys == SelectSeq(t.redisMissKeys, LAMBDA k : k \notin DOMAIN out.values)
      w == mSet(t.lruData, redis, out.values, loaderMissKeys, fault)
  IN IF out.err
     THEN [lruData |-> t.lruData, redis |-> redis, valuesMap |-> valuesMap,
           validsMap |-> validsMap, err |-> "loader"]
     ELSE IF w.err
     THEN [lruData |-> w.lruData, redis |-> w.redis, valuesMap |-> EmptyMap,
           validsMap |-> EmptyMap, err |-> "redis"]
     ELSE [lruData |-> w.lruData, redis |-> w.redis, valuesMap |-> valuesMap,
           validsMap |-> validsMap, err |-> "nil"]

\* a loader miss that discards the stale candidate of the key
mGetLoad_dropStale(t, out, fault) ==
  LET loaderMissKeys == SelectSeq(t.redisMissKeys, LAMBDA k : k \notin DOMAIN out.values)
      kept == [k \in (DOMAIN t.valuesMap) \ (IF out.err THEN {} ELSE Range(loaderMissKeys))
                 |-> t.valuesMap[k]]
      valuesMap == Merge(kept, out.values)
      validsMap == Merge(t.validsMap, [k \in DOMAIN out.values |-> TRUE])
      w == mSet(t.lruData, redis, out.values, loaderMissKeys, fault)
  IN IF out.err
     THEN [lruData |-> t.lruData, redis |-> redis, valuesMap |-> valuesMap,
           validsMap |-> validsMap, err |-> "loader"]
     ELSE [lruData |-> w.lruData, redis |-> w.redis, valuesMap |-> valuesMap,
           validsMap |-> validsMap, err |-> IF w.err THEN "redis" ELSE "nil"]

\* MGet from the loader call on, given the loader's answer
mGetLoad(t, out, fault) ==
  LET valuesMap == Merge(t.valuesMap, out.values)
      validsMap == Merge(t.validsMap, [k \in DOMAIN out.values |-> TRUE])
      loaderMissKeys == SelectSeq(t.redisMissKeys, LAMBDA k : k \notin DOMAIN out.values)
      w == mSet(t.lruData, redis, out.values, loaderMissKeys, fault)
  IN IF out.err
     THEN [lruData |-> t.lruData, redis |-> redis, valuesMap |-> valuesMap,
           validsMap |-> validsMap, err |-> "loader"]
     ELSE [lruData |-> w.lruData, redis |-> w.redis, valuesMap |-> valuesMap,
           validsMap |-> validsMap, err |-> IF w.err THEN "redis" ELSE "nil"]

\* the miss the loader confirmed for a key stands until the key is set,
\* deleted or loaded, and is forgotten once no marker of it can be left
Stand(n) == IF n >= 0 /\ n < NegativeTTL THEN n ELSE -1

MGet(keys, faulty) ==
  /\ calls < MaxCalls
  /\ calls' = calls + 1
  /\ UNCHANGED <<options, now, name, constructed, inflight, evicted>>
  /\ IF Len(keys) = 0
     THEN /\ last' = [NoCall EXCEPT !.op = "MGet", !.keys = keys, !.at = now]
          /\ UNCHANGED <<lruData, redis, missed, faults>>
     ELSE \E p1 \in {mGetFromLRUCache(lruData, keys, EmptyMap, EmptyMap)} :
           \E getFail \in GetFails(faulty, p1.missKeys) :
           \E p2 \in {mGetFromRedisCache(redis, p1.missKeys, p1.valuesMap, p1.validsMap, getFail)} :
           \E t \in {mGetTiers(keys, getFail, p1, p2)} :
             \E out \in (IF t.loads THEN LoaderOutcomes(t.redisMissKeys) ELSE {NoOutcome}) :
             \E fault \in SetFails(faulty /\ t.loads /\ ~out.err, Range(t.redisMissKeys)) :
               \E f \in {IF t.loads THEN mGetLoad(t, out, fault)
                        ELSE [lruData |-> t.lruData, redis |-> redis, valuesMap |-> t.valuesMap,
                              validsMap |-> t.validsMap, err |-> "nil"]} :
                  /\ lruData' = f.lruData
                  /\ redis' = f.redis
                  /\ faults' = IF getFail # {} \/ fault.setFail THEN faults + 1 ELSE faults
                  /\ last' = [op |-> "MGet", keys |-> keys, kvs |-> EmptyMap, at |-> now,
                              isNil |-> FALSE, values |-> f.valuesMap, valids |-> f.validsMap,
                              err |-> f.err,
                              lruGot |-> t.lruGot, redisGets |-> t.redisGets,
                              redisGot |-> t.redisGot,
                              loaderReqs |-> IF t.loads THEN <<t.redisMissKeys>> ELSE << >>,
                              loaderOut |-> out]
                  /\ missed' = [k \in Keys |->
                                  IF t.loads /\ ~out.err /\ k \in Range(t.redisMissKeys)
                                  THEN (IF k \in DOMAIN out.values THEN -1 ELSE Stand(0))
                                  ELSE missed[k]]

\* ------------------------------------------------------------------ MSet, MDel
\* The transcript of an MDel keeps, as lruGot and redisGot, what the tiers
\* held for its keys when it was called.
MSet(kvs, faulty) ==
  /\ calls < MaxCalls
  /\ calls' = calls + 1
  /\ UNCHANGED <<options, now, name, constructed, inflight, evicted>>
  /\ \E fault \in SetFails(faulty, DOMAIN kvs) :
     \E w \in {mSet(lruData, redis, kvs, << >>, fault)} :
        /\ lruData' = w.lruData
        /\ redis' = w.redis
        /\ faults' = IF fault.setFail THEN faults + 1 ELSE faults
        /\ last' = [NoCall EXCEPT !.op = "MSet", !.kvs = kvs, !.at = now,
                                  !.err = IF w.err THEN "redis" ELSE "nil"]
        /\ missed' = [k \in Keys |-> IF k \in DOMAIN kvs THEN -1 ELSE missed[k]]

MDel(keys, faulty) ==
  /\ calls < MaxCalls
  /\ calls' = calls + 1
  /\ UNCHANGED <<options, now, name, constructed, inflight, evicted>>
  /\ \E failed \in DelFails(faulty, keys) :
        /\ faults' = IF failed THEN faults + 1 ELSE faults
        /\ lruData' = IF Len(keys) = 0 \/ options.LRUCacheOptions.nil THEN lruData
                      ELSE [k \in Keys |-> IF k \in Range(keys)
                                           THEN lruData_Delete(lruData, k)[k] ELSE lruData[k]]
        /\ redis' = IF Len(keys) = 0 \/ options.RedisCacheOptions.nil \/ failed THEN redis
                    ELSE redis_Del(redis, {mkRedisKey(k) : k \in Range(keys)})
        /\ last' = [NoCall EXCEPT !.op = "MDel", !.keys = keys, !.at = now,
                                  !.err = IF failed THEN "redis" ELSE "nil",
                                  !.lruGot = IF options.LRUCacheOptions.nil THEN EmptyMap
                                             ELSE [k \in Range(keys) |-> lruData_Get(lruData, k)],
                                  !.redisGot = IF options.RedisCacheOptions.nil THEN EmptyMap
                                               ELSE [k \in Range(keys) |-> redis_Get(redis, k, {})]]
        /\ missed' = [k \in Keys |-> IF k \in Range(keys) THEN -1 ELSE missed[k]]

\* ------------------------------------------------------------------ time
\* One tick passes: ccache items age (an item stays, expired, until it is
\* replaced or deleted), redis drops the entries whose ttl has run out
Tick ==
  /\ now < MaxTime
  /\ now' = now + 1
  /\ lruData' = [k \in Keys |->
                   IF lruData[k].has /\ lruData[k].ttl >= 0
                   THEN [lruData[k] EXCEPT !.ttl = @ - 1] ELSE lruData[k]]
  /\ redis' = [rk \in DOMAIN redis |->
                 IF redis[rk].has /\ redis[rk].ttl > 0
                 THEN (IF redis[rk].ttl = 1 THEN NoItem ELSE [redis[rk] EXCEPT !.ttl = @ - 1])
                 ELSE redis[rk]]
  /\ missed' = [k \in Keys |-> IF missed[k] >= 0 THEN Stand(missed[k] + 1) ELSE -1]
  /\ UNCHANGED <<options, last, calls, faults, name, constructed, inflight, evicted>>

\* ------------------------------------------------------------------ specifications
\* the callers that may be inside MGet at the same time
Callers == {"c1", "c2"}
\* a caller that is in no call
Idle == [pc |-> "idle"]

Init ==
  /\ options \in {o \in OptionsChoices : NewCache("levelcache", o)}
  /\ now = StartTime
  /\ lruData = [k \in Keys |-> NoItem]
  /\ redis = [rk \in RedisKeys |-> NoItem]
  /\ last = NoCall
  /\ missed = [k \in Keys |-> -1]
  /\ calls = 0
  /\ faults = 0
  /\ name = "levelcache"
  /\ constructed = "yes"
  /\ inflight = [c \in Callers |-> Idle]
  /\ evicted = {}

\* redis answers every command
MGetCall == \E keys \in KeyLists : MGet(keys, FALSE)
MSetCall == \E kvs \in Maps(Keys, {Plain(v) : v \in Values}) : MSet(kvs, FALSE)
MDelCall == \E keys \in KeyLists : MDel(keys, FALSE)

Next == MGetCall \/ MSetCall \/ MDelCall \/ Tick

Spec == Init /\ [][Next]_vars

\* redis may fail a round trip, on a two-level cache with a loader
MGetFaulty == \E keys \in KeyLists : MGet(keys, TRUE)
MSetFaulty == \E kvs \in Maps(Keys, {Plain(v) : v \in Values}) : MSet(kvs, TRUE)
MDelFaulty == \E keys \in KeyLists : MDel(keys, TRUE)

InitFaulty ==
  /\ Init
  /\ ~options.LRUCacheOptions.nil
  /\ ~options.RedisCacheOptions.nil
  /\ options.Loader

NextFaulty == MGetFaulty \/ MSetFaulty \/ MDelFaulty \/ Tick

SpecFaulty == InitFaulty /\ [][NextFaulty]_vars

\* ---- construction: NewCache is called with a name and options that may be
\* invalid, and the operations run on the cache it returns
Names == {"", "levelcache"}
\* the options given to NewCache: the ones above, a nil *Options, a miss
\* timeout above the timeout, a soft timeout above the hard one
NewCacheChoices ==
  OptionsChoices
  \cup {NoOptions,
        [LRUCacheOptions |-> LRUOpt(2, 1, 2), RedisCacheOptions |-> NoOptions,
         Loader |-> TRUE, CompressionType |-> CompressionType_None],
        [LRUCacheOptions |-> NoOptions, RedisCacheOptions |-> RedisOpt("client", "lc", 1, 2, 0),
         Loader |-> FALSE, CompressionType |-> CompressionType_None]}

InitNew ==
  /\ options \in NewCacheChoices
  /\ name \in Names
  /\ constructed = "no"
  /\ now = StartTime
  /\ lruData = [k \in Keys |-> NoItem]
  /\ redis = [rk \in (IF options = NoOptions THEN Keys ELSE RedisKeys) |-> NoItem]
  /\ last = NoCall
  /\ missed = [k \in Keys |-> -1]
  /\ calls = 0
  /\ faults = 0
  /\ inflight = [c \in Callers |-> Idle]
  /\ evicted = {}

\* NewCache(name, options): panics or returns the cache
NewCacheCall ==
  /\ constructed = "no"
  /\ constructed' = IF NewCache(name, options) THEN "yes" ELSE "panic"
  /\ UNCHANGED <<options, now, lruData, redis, last, missed, calls, faults, name,
                 inflight, evicted>>

\* the operations are methods of the cache NewCache returned
MGetNew == constructed = "yes" /\ MGetCall
MSetNew == constructed = "yes" /\ MSetCall
MDelNew == constructed = "yes" /\ MDelCall
TickNew == constructed = "yes" /\ Tick

NextNew == NewCacheCall \/ MGetNew \/ MSetNew \/ MDelNew \/ TickNew

SpecNew == InitNew /\ [][NextNew]_vars

\* ---- overlapping calls: MGet taken step by step, one step per round trip
\* (the local pass, the GET pipeline with the write of its hits to the local
\* tier, the loader call, the write-back), so that the steps of two callers
\* interleave.  MGet takes no lock: a step reads the tiers as they are then.
\* A caller makes one call; a call takes less than a tick.
NoTiers(keys, p1) ==
  [lruMissKeys |-> p1.missKeys, redisMissKeys |-> << >>,
   valuesMap |-> p1.valuesMap, validsMap |-> p1.validsMap, lruData |-> lruData,
   lruGot |-> EmptyMap, redisGets |-> << >>, redisGot |-> EmptyMap, loads |-> FALSE]

\* an MGet that writes the tiers before it calls the loader
phaseAfter_writeFirst(pc, p1, t, out) ==
  CASE pc = "idle" -> IF Len(p1.missKeys) = 0 THEN "done" ELSE "redis"
    [] pc = "redis" -> IF t.loads THEN "writeBack" ELSE "done"
    [] pc = "writeBack" -> "loader"
    [] OTHER -> "done"

\* where MGet goes on after a step: the early returns and the order of the steps
phaseAfter(pc, p1, t, out) ==
  CASE pc = "idle" -> IF Len(p1.missKeys) = 0 THEN "done" ELSE "redis"
    [] pc = "redis" -> IF t.loads THEN "loader" ELSE "done"
    [] pc = "loader" -> IF out.err THEN "done" ELSE "writeBack"
    [] OTHER -> "done"

\* a loader call that is spared when another caller already holds the
\* loader's answer to the same request
callLoader_singleFlight(c, req) ==
  IF \E d \in Callers \ {c} : inflight[d].pc = "writeBack" /\ inflight[d].t.redisMissKeys = req
  THEN {[asked |-> FALSE, out |-> inflight[d].out] :
          d \in {e \in Callers \ {c} : inflight[e].pc = "writeBack" /\ inflight[e].t.redisMissKeys = req}}
  ELSE {[asked |-> TRUE, out |-> o] : o \in LoaderOutcomes(req)}

\* cache.options.Loader(ctx, redisMissKeys), called by caller c
callLoader(c, req) == {[asked |-> TRUE, out |-> o] : o \in LoaderOutcomes(req)}

\* a caller whose call has returned: what it returned and the steps it took
Done(r) ==
  [pc |-> "done", phases |-> r.phases, values |-> r.values, valids |-> r.valids, err |-> r.err]
Continue(r) == IF r.pc = "done" THEN Done(r) ELSE r

\* lines 45-51: the local pass
mGetLocal(c, keys) ==
  /\ inflight[c].pc = "idle"
  /\ calls < MaxCalls
  /\ calls' = calls + 1
  /\ \E p1 \in {mGetFromLRUCache(lruData, keys, EmptyMap, EmptyMap)} :
       inflight' = [inflight EXCEPT ![c] = Continue(
         [pc |-> phaseAfter("idle", p1, NoTiers(keys, p1), NoOutcome),
          keys |-> keys,
          lruGot |-> IF options.LRUCacheOptions.nil THEN EmptyMap
                     ELSE [k \in Range(keys) |-> lruData_Get(lruData, k)],
          p1 |-> p1, t |-> NoTiers(keys, p1), out |-> NoOutcome, loaderReqs |-> << >>,
          phases |-> IF options.LRUCacheOptions.nil THEN << >> ELSE <<"local">>,
          values |-> p1.valuesMap, valids |-> p1.validsMap, err |-> "nil"])]
  /\ UNCHANGED <<options, now, lruData, redis, last, missed, faults, name, constructed, evicted>>

\* lines 53-80: the GET pipeline, its replies, the write of the hits to the
\* local tier
mGetRemote(c) ==
  /\ inflight[c].pc = "redis"
  /\ \E p2 \in {mGetFromRedisCache(redis, inflight[c].p1.missKeys, inflight[c].p1.valuesMap,
                                   inflight[c].p1.validsMap, {})} :
     \E t \in {mGetTiers(inflight[c].keys, {}, inflight[c].p1, p2)} :
       /\ lruData' = t.lruData
       /\ inflight' = [inflight EXCEPT ![c] = Continue(
            [@ EXCEPT !.pc = phaseAfter("redis", inflight[c].p1, t, NoOutcome),
                      !.t = t,
                      !.phases = IF t.redisGets = << >> THEN @ ELSE Append(@, "redis"),
                      !.values = t.valuesMap, !.valids = t.validsMap])]
  /\ UNCHANGED <<options, now, redis, last, missed, calls, faults, name, constructed, evicted>>

\* lines 82-89: the loader call
mGetLoader(c) ==
  /\ inflight[c].pc = "loader"
  /\ \E ans \in callLoader(c, inflight[c].t.redisMissKeys) :
     \E f \in {mGetLoad(inflight[c].t, ans.out, SetOk)} :
       inflight' = [inflight EXCEPT ![c] = Continue(
         [@ EXCEPT !.pc = phaseAfter("loader", inflight[c].p1, inflight[c].t, ans.out),
                   !.out = ans.out,
                   !.loaderReqs = IF ans.asked THEN <<inflight[c].t.redisMissKeys>> ELSE << >>,
                   !.phases = Append(@, "loader"),
                   !.values = f.valuesMap, !.valids = f.validsMap,
                   !.err = IF ans.out.err THEN "loader" ELSE "nil"])]
  /\ UNCHANGED <<options, now, lruData, redis, last, missed, calls, faults, name, constructed, evicted>>

\* lines 91-102: the write-back, into the tiers as they are now
mGetWriteBack(c) ==
  /\ inflight[c].pc = "writeBack"
  /\ \E f \in {mGetLoad([inflight[c].t EXCEPT !.lruData = lruData], inflight[c].out, SetOk)} :
       /\ lruData' = f.lruData
       /\ redis' = f.redis
       /\ inflight' = [inflight EXCEPT ![c] = Continue(
            [@ EXCEPT !.pc = phaseAfter("writeBack", inflight[c].p1, inflight[c].t, inflight[c].out),
                      !.phases = Append(@, "write"),
                      !.values = f.valuesMap, !.valids = f.validsMap, !.err = f.err])]
  /\ missed' = [k \in Keys |->
                  IF k \in Range(inflight[c].t.redisMissKeys)
                  THEN (IF k \in DOMAIN inflight[c].out.values THEN -1 ELSE Stand(0))
                  ELSE missed[k]]
  /\ UNCHANGED <<options, now, last, calls, faults, name, constructed, evicted>>

LocalStep == \E c \in Callers : \E keys \in KeyLists \ {<< >>} : mGetLocal(c, keys)
RemoteStep == \E c \in Callers : mGetRemote(c)
LoaderStep == \E c \in Callers : mGetLoader(c)
WriteBackStep == \E c \in Callers : mGetWriteBack(c)

\* between calls: a call that fills the tiers, or a tick
Between == \A c \in Callers : inflight[c].pc \in {"idle", "done"}
MSetFirst == (\A c \in Callers : inflight[c].pc = "idle") /\ MSetCall
TickBetween == Between /\ Tick

InitOverlap == InitFaulty

NextOverlap == MSetFirst \/ LocalStep \/ RemoteStep \/ LoaderStep \/ WriteBackStep \/ TickBetween

SpecOverlap == InitOverlap /\ [][NextOverlap]_vars

\* ---- calls that overlap, writes included.  cacheImpl takes no lock, and a
\* write is not one step: mSet writes the local tier, mSetRedisCache stamps
\* and queues its SET commands (time.Now().Unix(), pipe.Set), and pipe.Exec()
\* sends them later, when other callers may have written and time may have
\* passed.  A caller makes one call, MGet, MSet or MDel.
\* pipe.Exec() of the queued commands, every one of them answered
pipe_Exec(r, cmds) ==
  [rk \in DOMAIN r |->
     IF \E k \in DOMAIN cmds : mkRedisKey(k) = rk
     THEN LET k == CHOOSE k \in DOMAIN cmds : mkRedisKey(k) = rk
          IN redis_Set(r, rk, cmds[k].bs, cmds[k].expiration)[rk]
     ELSE r[rk]]

\* the callers whose MGet holds the loader's answer and has not written it back
AfterLoader == {d \in Callers : inflight[d].pc \in {"writeBack", "mgetExec"}}

\* mSet up to pipe.Exec(): the local tier written, the SET commands stamped
\* and queued
mSetQueue(c, kvs, missKeys) ==
  {[lruData |-> mSetLRUCache(lruData, kvs, missKeys),
    cmds |-> IF options.RedisCacheOptions.nil THEN EmptyMap
             ELSE redisSetCmds(kvs, missKeys)]}

\* MSet, first step
mSetStart(c, kvs) ==
  /\ inflight[c].pc = "idle"
  /\ calls < MaxCalls
  /\ calls' = calls + 1
  /\ \E q \in mSetQueue(c, kvs, << >>) :
       /\ lruData' = q.lruData
       /\ inflight' = [inflight EXCEPT ![c] =
            [pc |-> "msetExec", kvs |-> kvs, cmds |-> q.cmds, early |-> AfterLoader]]
  /\ UNCHANGED <<options, now, redis, last, missed, faults, name, constructed, evicted>>

\* MSet, pipe.Exec() and return
mSetExec(c) ==
  /\ inflight[c].pc = "msetExec"
  /\ redis' = pipe_Exec(redis, inflight[c].cmds)
  /\ inflight' = [inflight EXCEPT ![c] =
       [pc |-> "msetDone", kvs |-> inflight[c].kvs, early |-> inflight[c].early]]
  /\ UNCHANGED <<options, now, lruData, last, missed, calls, faults, name, constructed, evicted>>

\* MDel, whole
mDel(c, keys) ==
  /\ inflight[c].pc = "idle"
  /\ calls < MaxCalls
  /\ calls' = calls + 1
  /\ lruData' = IF options.LRUCacheOptions.nil THEN lruData
                ELSE [k \in Keys |-> IF k \in Range(keys)
                                     THEN lruData_Delete(lruData, k)[k] ELSE lruData[k]]
  /\ redis' = IF options.RedisCacheOptions.nil THEN redis
              ELSE redis_Del(redis, {mkRedisKey(k) : k \in Range(keys)})
  /\ inflight' = [inflight EXCEPT ![c] =
       [pc |-> "mdelDone", keys |-> Range(keys), early |-> AfterLoader]]
  /\ UNCHANGED <<options, now, last, missed, faults, name, constructed, evicted>>

\* MGet, lines 91-98 and mSet up to pipe.Exec()
mGetWriteStart(c) ==
  /\ inflight[c].pc = "writeBack"
  /\ \E q \in mSetQueue(c, inflight[c].out.values,
                        SelectSeq(inflight[c].t.redisMissKeys,
                                  LAMBDA k : k \notin DOMAIN inflight[c].out.values)) :
       /\ lruData' = q.lruData
       /\ inflight' = [inflight EXCEPT ![c] =
            [pc |-> "mgetExec", cmds |-> q.cmds, out |-> inflight[c].out,
             phases |-> inflight[c].phases, values |-> inflight[c].values,
             valids |-> inflight[c].valids, err |-> inflight[c].err]]
  /\ UNCHANGED <<options, now, redis, last, missed, calls, faults, name, constructed, evicted>>

\* MGet, pipe.Exec() of the write-back and return
mGetWriteExec(c) ==
  /\ inflight[c].pc = "mgetExec"
  /\ redis' = pipe_Exec(redis, inflight[c].cmds)
  /\ inflight' = [inflight EXCEPT ![c] = Done([inflight[c] EXCEPT !.phases = Append(@, "write")])]
  /\ UNCHANGED <<options, now, lruData, last, missed, calls, faults, name, constructed, evicted>>

MSetStartStep ==
  \E c \in Callers : \E kvs \in Maps(Keys, {Plain(v) : v \in Values}) \ {EmptyMap} : mSetStart(c, kvs)
MSetExecStep == \E c \in Callers : mSetExec(c)
MDelStep == \E c \in Callers : \E keys \in KeyLists \ {<< >>} : mDel(c, keys)
WriteStartStep == \E c \in Callers : mGetWriteStart(c)
WriteExecStep == \E c \in Callers : mGetWriteExec(c)

InitRace == InitFaulty

NextRace ==
  \/ LocalStep \/ RemoteStep \/ LoaderStep \/ WriteStartStep \/ WriteExecStep
  \/ MSetStartStep \/ MSetExecStep \/ MDelStep \/ Tick

SpecRace == InitRace /\ [][NextRace]_vars

\* ---- a second process: redis outlives the process, the local tier does
\* not.  Once, the process ends and a new one constructs the cache again, on
\* the same redis and with the same options: its local tier is empty.
Restart ==
  /\ constructed = "yes"
  /\ constructed' = "again"
  /\ lruData' = [k \in Keys |-> NoItem]
  /\ last' = NoCall
  /\ missed' = [k \in Keys |-> -1]
  /\ UNCHANGED <<options, now, redis, calls, faults, name, inflight, evicted>>

InitRestart == Init /\ ~options.LRUCacheOptions.nil /\ ~options.RedisCacheOptions.nil

NextRestart == MGetCall \/ MSetCall \/ MDelCall \/ Tick \/ Restart

SpecRestart == InitRestart /\ [][NextRestart]_vars

\* ---- a full local store.  ccache.New(ccache.Configure().MaxSize(Size)):
\* Set stores the item at once; the store's worker, some time later, drops
\* items from the least recently used end when it holds more than MaxSize
\* (TestFull: "give lrucache async gc some time").  How many more than the
\* excess it drops is the store's affair: any number is allowed here.
HeldKeys(l) == {k \in Keys : l[k].has}
\* item j was stored before item k: of two items of a kind, which start with
\* the same ttl, the one with less ttl left
FilledBefore(l, j, k) == l[j].bs.fmt = l[k].bs.fmt /\ l[j].ttl < l[k].ttl
\* a pruning from the most recently used end
GcDrops_newest(l) ==
  {D \in SUBSET HeldKeys(l) :
     /\ Cardinality(HeldKeys(l) \ D) <= options.LRUCacheOptions.Size
     /\ \A k \in D, j \in HeldKeys(l) \ D : ~FilledBefore(l, k, j)}
\* the sets of keys a pruning may drop: enough of them, and no item stays
\* that was stored before a dropped one
GcDrops(l) ==
  {D \in SUBSET HeldKeys(l) :
     /\ Cardinality(HeldKeys(l) \ D) <= options.LRUCacheOptions.Size
     /\ \A k \in D, j \in HeldKeys(l) \ D : ~FilledBefore(l, j, k)}

\* the worker's pruning, some time after the Set that filled the store
Gc ==
  /\ ~options.LRUCacheOptions.nil
  /\ Cardinality(HeldKeys(lruData)) > options.LRUCacheOptions.Size
  /\ \E D \in GcDrops(lruData) :
       /\ lruData' = [k \in Keys |-> IF k \in D THEN NoItem ELSE lruData[k]]
       /\ evicted' = evicted \cup D
  /\ UNCHANGED <<options, now, redis, last, missed, calls, faults, name, constructed, inflight>>

\* a local-only cache with room for one item
InitFull ==
  /\ options = [LRUCacheOptions |-> LRUOpt(1, 2, 1), RedisCacheOptions |-> NoOptions,
                Loader |-> TRUE, CompressionType |-> CompressionType_None]
  /\ NewCache("levelcache", options)
  /\ now = StartTime
  /\ lruData = [k \in Keys |-> NoItem]
  /\ redis = [rk \in RedisKeys |-> NoItem]
  /\ last = NoCall
  /\ missed = [k \in Keys |-> -1]
  /\ calls = 0
  /\ faults = 0
  /\ name = "levelcache"
  /\ constructed = "yes"
  /\ inflight = [c \in Callers |-> Idle]
  /\ evicted = {}

NextFull == MGetCall \/ MSetCall \/ MDelCall \/ Tick \/ Gc

SpecFull == InitFull /\ [][NextFull]_vars

\* ---- the age of what MGet returns.  The cache starts as MSet leaves it
\* when it is given FirstValue for every key at StartTime; FirstValue is
\* produced by nothing afterwards (the loader and the later MSets give
\* another value), so that what MGet returns of it is as old as the clock says.
FirstValue == Plain("va")
LaterValues == {Plain(v) : v \in Values} \ {FirstValue}
AgeChoices ==
  {[LRUCacheOptions |-> l, RedisCacheOptions |-> r, Loader |-> TRUE,
    CompressionType |-> CompressionType_None] :
     l \in {NoOptions, LRUOpt(2, 1, 0)}, r \in {NoOptions, RedisOpt("client", "lc", 2, 1, 1)}}

InitAge ==
  /\ options \in {o \in AgeChoices : NewCache("levelcache", o)}
  /\ now = StartTime
  /\ \E w \in {mSet([k \in Keys |-> NoItem], [rk \in RedisKeys |-> NoItem],
                    [k \in Keys |-> FirstValue], << >>, SetOk)} :
       lruData = w.lruData /\ redis = w.redis
  /\ last = NoCall
  /\ missed = [k \in Keys |-> -1]
  /\ calls = 0
  /\ faults = 0
  /\ name = "levelcache"
  /\ constructed = "yes"
  /\ inflight = [c \in Callers |-> Idle]
  /\ evicted = {}

MGetAge ==
  /\ MGetCall
  /\ \A k \in DOMAIN last'.loaderOut.values : last'.loaderOut.values[k] \in LaterValues
MSetAge == \E kvs \in Maps(Keys, LaterValues) : MSet(kvs, FALSE)

NextAge == MGetAge \/ MSetAge \/ MDelCall \/ Tick

SpecAge == InitAge /\ [][NextAge]_vars

\* ---- a loader that keeps to no contract: its map may hold keys it was not
\* asked for, and it may return entries together with an error.  MGet as in
\* lines 40-103, redis answering every command.
AnyOutcomes == {[values |-> m, err |-> e] : m \in Maps(Keys, {Plain(v) : v \in Values}), e \in BOOLEAN}

MGetAny(keys) ==
  /\ calls < MaxCalls
  /\ calls' = calls + 1
  /\ UNCHANGED <<options, now, name, constructed, inflight, evicted, faults>>
  /\ IF Len(keys) = 0
     THEN /\ last' = [NoCall EXCEPT !.op = "MGet", !.keys = keys, !.at = now]
          /\ UNCHANGED <<lruData, redis, missed>>
     ELSE \E p1 \in {mGetFromLRUCache(lruData, keys, EmptyMap, EmptyMap)} :
           \E p2 \in {mGetFromRedisCache(redis, p1.missKeys, p1.valuesMap, p1.validsMap, {})} :
           \E t \in {mGetTiers(keys, {}, p1, p2)} :
             \E out \in (IF t.loads THEN AnyOutcomes ELSE {NoOutcome}) :
               \E f \in {IF t.loads THEN mGetLoad(t, out, SetOk)
                        ELSE [lruData |-> t.lruData, redis |-> redis, valuesMap |-> t.valuesMap,
                              validsMap |-> t.validsMap, err |-> "nil"]} :
                  /\ lruData' = f.lruData
                  /\ redis' = f.redis
                  /\ last' = [op |-> "MGet", keys |-> keys, kvs |-> EmptyMap, at |-> now,
                              isNil |-> FALSE, values |-> f.valuesMap, valids |-> f.validsMap,
                              err |-> f.err,
                              lruGot |-> t.lruGot, redisGets |-> t.redisGets,
                              redisGot |-> t.redisGot,
                              loaderReqs |-> IF t.loads THEN <<t.redisMissKeys>> ELSE << >>,
                              loaderOut |-> out]
                  /\ missed' = [k \in Keys |->
                                  IF t.loads /\ ~out.err /\ k \in DOMAIN out.values THEN -1
                                  ELSE IF t.loads /\ ~out.err /\ k \in Range(t.redisMissKeys)
                                  THEN Stand(0)
                                  ELSE missed[k]]

MGetAnyCall == \E keys \in KeyLists : MGetAny(keys)

InitAny == Init /\ options.Loader /\ options.CompressionType = CompressionType_None

NextAny == MGetAnyCall \/ MSetCall \/ MDelCall \/ Tick

SpecAny == InitAny /\ [][NextAny]_vars

TypeOK == calls \in 0..MaxCalls /\ now \in StartTime..MaxTime

\* ------------------------------------------------------------------ properties
\* The properties read the transcript of the last call.
\* the key lists the call sent to redis and to the loader
AskedRedis(k) == \E i \in DOMAIN last.redisGets : k \in Range(last.redisGets[i])
AskedLoader(k) == \E i \in DOMAIN last.loaderReqs : k \in Range(last.loaderReqs[i])
\* what the local tier held for k when the call read it
LocalHeld(k) == k \in DOMAIN last.lruGot /\ last.lruGot[k].has
LocalValue(k) == LocalHeld(k) /\ last.lruGot[k].bs.fmt = "pb"
LocalFreshValue(k) == LocalValue(k) /\ last.lruGot[k].ttl >= 0
LocalStaleValue(k) == LocalValue(k) /\ last.lruGot[k].ttl < 0
Returned(k, v) == k \in DOMAIN last.values /\ last.values[k] = v
Valid(k) == k \in DOMAIN last.valids /\ last.valids[k]

\* C1 (P1 tier precedence): a key of an MGet whose local record is a decoded
\* value that has not expired is returned with that value and valid=true, and
\* the call sends the key neither to redis nor to the loader.
C1_TierPrecedence ==
  \A k \in Keys :
    (last.op = "MGet" /\ LocalFreshValue(k)) =>
       /\ Returned(k, last.lruGot[k].bs.raw)
       /\ Valid(k)
       /\ ~AskedRedis(k)
       /\ ~AskedLoader(k)

\* C1 witness: an MGet of two keys on a two-level cache, one fresh in the
\* local tier, the other carried to redis and to the loader
C1_Witness ==
  /\ last.op = "MGet"
  /\ \E k, j \in Keys :
       /\ LocalFreshValue(k) /\ Valid(k)
       /\ j # k /\ AskedRedis(j) /\ AskedLoader(j)

\* the step is a call of MGet that asks for k
MGetStep(k) == calls' = calls + 1 /\ last'.op = "MGet" /\ k \in Range(last'.keys)

\* C2 (P2 negative caching): once the loader, asked for K, has returned no
\* entry for it and no error, every MGet of K made before the negative-cache
\* TTL has elapsed, with no MSet or MDel of K in between, leaves the loader
\* alone for K and returns K in neither the value map nor the valid map.
C2_NegativeCaching ==
  [][\A k \in Keys :
       (MGetStep(k) /\ missed[k] >= 0) =>
          /\ ~AskedLoader(k)'
          /\ k \notin DOMAIN last'.values
          /\ ~Valid(k)']_vars

\* the local tier holds nothing for k that is still within its TTL
LocalElapsed(k) ==
  options.LRUCacheOptions.nil \/ ~lruData[k].has \/ lruData[k].ttl < 0
\* redis holds nothing for k (a marker or a record past its TTL is gone), or
\* a value record written more than SoftTimeout ago: the time since the
\* write is what has run off its hard TTL
RemoteElapsed(k) ==
  \/ options.RedisCacheOptions.nil
  \/ ~redis[mkRedisKey(k)].has
  \/ /\ redis[mkRedisKey(k)].bs.fmt = "pb"
     /\ redis[mkRedisKey(k)].ttl > 0
     /\ options.RedisCacheOptions.HardTimeout - redis[mkRedisKey(k)].ttl
          > options.RedisCacheOptions.SoftTimeout

\* C3 (P3 expiry reactivates the loader): when the TTL of what each
\* configured tier holds for a key has elapsed (the local entry, value or
\* marker, is expired or gone; the remote value is older than the soft TTL, or
\* the remote entry is gone), the next MGet of the key asks the loader for it.
C3_ExpiryReactivatesLoader ==
  [][\A k \in Keys :
       (MGetStep(k) /\ options.Loader /\ LocalElapsed(k) /\ RemoteElapsed(k)) =>
          AskedLoader(k)']_vars

\* C3 witness: on a two-level cache, an MGet finds the local entry of a key
\* expired, goes to redis for it and then to the loader
C3_Witness ==
  /\ last.op = "MGet"
  /\ ~options.RedisCacheOptions.nil
  /\ \E k \in Keys :
       /\ LocalHeld(k) /\ last.lruGot[k].ttl < 0
       /\ AskedRedis(k) /\ AskedLoader(k)

\* the last call was an MDel that returned nil and had k among its keys
Deleted(k) == last.op = "MDel" /\ last.err = "nil" /\ k \in Range(last.keys)

\* C4 (P7 delete): from a successful MDel of K until the next call, neither
\* tier holds anything for K; if that next call is an MGet of K, it finds K
\* in no tier, asks the loader for K, and what it returns for K is what the
\* loader returned for K and nothing else.
C4_Delete ==
  /\ [](\A k \in Keys : Deleted(k) => ~lruData[k].has /\ ~redis[mkRedisKey(k)].has)
  /\ [][\A k \in Keys :
          (Deleted(k) /\ MGetStep(k)) =>
             /\ ~LocalHeld(k)'
             /\ options.RedisCacheOptions.nil \/ last'.redisGot[k].err
             /\ options.Loader => AskedLoader(k)'
             /\ k \in DOMAIN last'.values <=> k \in DOMAIN last'.loaderOut.values
             /\ k \in DOMAIN last'.valids <=> k \in DOMAIN last'.loaderOut.values
             /\ k \in DOMAIN last'.values => last'.values[k] = last'.loaderOut.values[k]]_vars

\* C4 witness: a successful MDel of a key for which both tiers held a record,
\* and time has passed since with the key in neither tier
C4_Witness ==
  /\ Deleted("k1")
  /\ LocalHeld("k1")
  /\ "k1" \in DOMAIN last.redisGot /\ ~last.redisGot["k1"].err
  /\ ~lruData["k1"].has /\ ~redis[mkRedisKey("k1")].has
  /\ now > last.at
  /\ calls < MaxCalls

\* C5 (P5 round-trip): an MGet issued at once after a successful MSet
\* returns, for every key the MSet wrote, exactly the written bytes with
\* valid=true and does not ask the loader for it, whatever tiers and
\* compression type the cache was built with.
C5_RoundTrip ==
  [][\A k \in Keys :
       (last.op = "MSet" /\ last.err = "nil" /\ last.at = now
          /\ k \in DOMAIN last.kvs /\ MGetStep(k)) =>
          /\ k \in DOMAIN last'.values /\ last'.values[k] = last.kvs[k]
          /\ Valid(k)'
          /\ ~AskedLoader(k)']_vars

\* the last call was MGet([k1, k2]), both keys went to the loader, and the
\* loader returned an entry for k1 only, and no error
PartialLoad(k1, k2) ==
  /\ k1 # k2
  /\ last.op = "MGet" /\ last.keys = <<k1, k2>>
  /\ AskedLoader(k1) /\ AskedLoader(k2)
  /\ ~last.loaderOut.err
  /\ DOMAIN last.loaderOut.values = {k1}
\* the step is a call of MGet with the key list of the last call
SameMGetStep == calls' = calls + 1 /\ last'.op = "MGet" /\ last'.keys = last.keys
\* redis answered the GET of k with a value record
RemoteValue(k) ==
  k \in DOMAIN last.redisGot /\ ~last.redisGot[k].err /\ last.redisGot[k].bs.fmt = "pb"

LoaderGaveNothing(k) == AskedLoader(k) /\ k \notin DOMAIN last.loaderOut.values
\* redis held nothing for k, or is not configured
RemoteNothing(k) ==
  options.RedisCacheOptions.nil \/ (k \in DOMAIN last.redisGot /\ last.redisGot[k].err)

\* C7 (P4 stale read with failing refresh): when all that is cached for a
\* key is an expired value record in the local tier and the loader returns
\* an error, MGet returns the stale value in the value map, leaves the key
\* out of the valid map and returns the loader's error.
C7_StaleReadLoaderError ==
  \A k \in Keys :
    (/\ last.op = "MGet"
     /\ LocalStaleValue(k) /\ RemoteNothing(k)
     /\ LoaderGaveNothing(k) /\ last.loaderOut.err) =>
       /\ Returned(k, last.lruGot[k].bs.raw)
       /\ k \notin DOMAIN last.valids
       /\ last.err = "loader"

\* C7 witness: on a two-level cache, an MGet finds an expired local value,
\* nothing in redis, and the loader fails
C7_Witness ==
  /\ last.op = "MGet"
  /\ ~options.RedisCacheOptions.nil
  /\ \E k \in Keys :
       /\ LocalStaleValue(k) /\ RemoteNothing(k)
       /\ LoaderGaveNothing(k) /\ last.loaderOut.err
       /\ last.err = "loader"

\* the loader returned no error and no entry for k, a key it was asked for
\* and for which a tier had given a stale candidate
StaleThenLoaderMiss(k) ==
  /\ last.op = "MGet"
  /\ LocalStaleValue(k) \/ RemoteValue(k)
  /\ LoaderGaveNothing(k) /\ ~last.loaderOut.err

\* C8, as stated: when a key carried to the loader has a stale candidate from
\* the local or the remote tier and the loader returns no error and no entry
\* for it, the key is absent from the value map MGet returns.
C8_LoaderMissDropsStale ==
  \A k \in Keys : StaleThenLoaderMiss(k) => k \notin DOMAIN last.values

\* C8, amended: in that case the key stays in the value map with the stale
\* candidate (the local tier's if it gave one, else the remote tier's,
\* decoded when its compression type is one the codec names) and is absent
\* from the valid map.
C8_LoaderMissKeepsStale ==
  \A k \in Keys :
    StaleThenLoaderMiss(k) =>
       /\ k \in DOMAIN last.values
       /\ LocalStaleValue(k) => last.values[k] = last.lruGot[k].bs.raw
       /\ (~LocalStaleValue(k)
            /\ last.redisGot[k].bs.ct \in {CompressionType_None, CompressionType_Snappy}) =>
              last.values[k] = Plain(last.redisGot[k].bs.raw.body)
       /\ k \notin DOMAIN last.valids

\* C8 witness: a remote-only cache holds a record older than the soft TTL,
\* the loader confirms the miss, and the old value is returned
C8_Witness ==
  /\ last.op = "MGet"
  /\ options.LRUCacheOptions.nil
  /\ \E k \in Keys :
       /\ RemoteValue(k) /\ LoaderGaveNothing(k) /\ ~last.loaderOut.err
       /\ k \in DOMAIN last.values /\ last.values[k] # NilBytes

\* C9: in a local-only cache, when the value record of a key is past its
\* TTL and the loader, asked for the key, returns no entry and no error,
\* MGet returns the expired value in the value map, the key is not in the
\* valid map, and the error is nil.
C9_ExpiredSurvivesLoaderMiss ==
  \A k \in Keys :
    (/\ last.op = "MGet"
     /\ options.RedisCacheOptions.nil
     /\ LocalStaleValue(k)
     /\ LoaderGaveNothing(k) /\ ~last.loaderOut.err) =>
       /\ Returned(k, last.lruGot[k].bs.raw)
       /\ k \notin DOMAIN last.valids
       /\ last.err = "nil"

\* C9 witness: such a call, on a local-only cache, with the value returned
C9_Witness ==
  /\ last.op = "MGet"
  /\ options.RedisCacheOptions.nil
  /\ \E k \in Keys :
       /\ LocalStaleValue(k) /\ LoaderGaveNothing(k) /\ ~last.loaderOut.err
       /\ k \in DOMAIN last.values /\ last.err = "nil"

\* the local tier held an expired value record for k and redis answered the
\* GET of k with a value record
BothHold(k) == last.op = "MGet" /\ LocalStaleValue(k) /\ RemoteValue(k)
\* the remote record's write stamp is within the soft TTL of the call
RemoteWithinSoft(k) ==
  last.at - last.redisGot[k].bs.mt * Second <= options.RedisCacheOptions.SoftTimeout

\* C10, as stated: when the local tier holds an expired value record for a
\* key and the remote tier a value record, within the soft TTL or beyond it,
\* the value MGet returns for the key is the local tier's, unless the loader
\* supplies one.
C10_LocalStaleOverRemote ==
  \A k \in Keys :
    (BothHold(k) /\ k \notin DOMAIN last.loaderOut.values) =>
       Returned(k, last.lruGot[k].bs.raw)

\* C10, amended: a remote record within the soft TTL wins: MGet returns the
\* remote value with valid=true and does not ask the loader for the key.
\* Only beyond the soft TTL is the key carried to the loader and, unless the
\* loader supplies a value, the local tier's expired value returned, not valid.
C10_LocalStaleOverRemoteStale ==
  \A k \in Keys :
    BothHold(k) =>
       IF RemoteWithinSoft(k)
       THEN /\ Returned(k, last.redisGot[k].bs.raw)
            /\ Valid(k)
            /\ ~AskedLoader(k)
       ELSE /\ AskedLoader(k)
            /\ k \notin DOMAIN last.loaderOut.values =>
                 (Returned(k, last.lruGot[k].bs.raw) /\ k \notin DOMAIN last.valids)

\* C10 witness: the tiers hold different values for a key (a SET that failed
\* left redis with the older one), the local one expired, the remote one
\* within the soft TTL, and MGet returns the remote one as valid
C10_Witness ==
  \E k \in Keys :
    /\ BothHold(k)
    /\ last.lruGot[k].bs.raw # last.redisGot[k].bs.raw
    /\ RemoteWithinSoft(k)
    /\ Returned(k, last.redisGot[k].bs.raw) /\ Valid(k)

\* redis holds for k a value record written no more than SoftTimeout ago (the
\* time since the write is what has run off its hard TTL), with a payload
\* the codec can decompress
RemoteYoung(k) ==
  /\ ~options.RedisCacheOptions.nil
  /\ redis[mkRedisKey(k)].has
  /\ redis[mkRedisKey(k)].bs.fmt = "pb"
  /\ redis[mkRedisKey(k)].bs.ct \in {CompressionType_None, CompressionType_Snappy}
  /\ redis[mkRedisKey(k)].ttl > 0
  /\ options.RedisCacheOptions.HardTimeout - redis[mkRedisKey(k)].ttl
       <= options.RedisCacheOptions.SoftTimeout

\* C11 (remote fresh is terminal): a key carried to the remote pass whose
\* remote record decodes and was written no more than the soft TTL before
\* the call is returned with the record's decompressed value and valid=true,
\* and is not passed to the loader.
C11_RemoteFreshTerminal ==
  [][\A k \in Keys :
       (MGetStep(k) /\ AskedRedis(k)' /\ RemoteYoung(k)) =>
          /\ k \in DOMAIN last'.values
          /\ last'.values[k] = Plain(redis[mkRedisKey(k)].bs.raw.body)
          /\ Valid(k)'
          /\ ~AskedLoader(k)']_vars

\* the local tier held a miss marker for k, not expired
LocalLiveMarker(k) ==
  LocalHeld(k) /\ last.lruGot[k].bs = missBytes /\ last.lruGot[k].ttl >= 0

\* C12 (unexpired local miss marker is terminal): a key of an MGet whose
\* local entry is a miss marker that has not expired is in neither returned
\* map, and the call sends it neither to redis nor to the loader, whatever
\* redis holds.
C12_LocalMarkerTerminal ==
  \A k \in Keys :
    (last.op = "MGet" /\ LocalLiveMarker(k)) =>
       /\ k \notin DOMAIN last.values
       /\ k \notin DOMAIN last.valids
       /\ ~AskedRedis(k)
       /\ ~AskedLoader(k)

\* C12 witness: on a two-level cache an MGet of two keys finds a live marker
\* for one, while redis holds an entry for it, and goes to redis for the other
C12_Witness ==
  /\ last.op = "MGet"
  /\ \E k, j \in Keys :
       /\ LocalLiveMarker(k)
       /\ ~options.RedisCacheOptions.nil /\ redis[mkRedisKey(k)].has
       /\ j # k /\ AskedRedis(j)

\* redis answered the GET of k with a miss marker
RemoteMarker(k) ==
  k \in DOMAIN last.redisGot /\ ~last.redisGot[k].err /\ last.redisGot[k].bs = missBytes

\* C13 (remote miss marker is terminal): a key carried to the remote pass
\* whose remote entry is a miss marker is not passed to the loader and has no
\* entry in the value map MGet returns, also when the local tier held an
\* expired value record for it.
C13_RemoteMarkerTerminal ==
  \A k \in Keys :
    (last.op = "MGet" /\ AskedRedis(k) /\ RemoteMarker(k)) =>
       /\ ~AskedLoader(k)
       /\ k \notin DOMAIN last.values

\* C14 (empty MGet is a no-op): MGet with a nil or empty key list returns
\* (nil, nil, nil), reads no tier, makes no loader call and writes nothing.
C14_EmptyMGet ==
  [][(calls' = calls + 1 /\ last'.op = "MGet" /\ Len(last'.keys) = 0) =>
        /\ last'.isNil /\ last'.values = EmptyMap /\ last'.valids = EmptyMap
        /\ last'.err = "nil"
        /\ last'.lruGot = EmptyMap
        /\ last'.redisGets = << >>
        /\ last'.loaderReqs = << >>
        /\ lruData' = lruData
        /\ redis' = redis]_vars

\* C14 witness: an empty MGet on a two-level cache with a loader, whose
\* tiers hold an expired local record and a redis entry
C14_Witness ==
  /\ last.op = "MGet" /\ Len(last.keys) = 0 /\ last.isNil
  /\ options.Loader
  /\ ~options.RedisCacheOptions.nil
  /\ \E k \in Keys : lruData[k].has /\ lruData[k].ttl < 0
  /\ \E k \in Keys : redis[mkRedisKey(k)].has

\* what the local and the remote pass make of k: valid when the local record
\* is fresh or the remote one within the soft TTL, a value when a tier held
\* a value record
PassValid(k) == LocalFreshValue(k) \/ (RemoteValue(k) /\ RemoteWithinSoft(k))
PassHasValue(k) == LocalValue(k) \/ RemoteValue(k)
PassFromLocal(k) ==
  LocalFreshValue(k) \/ (LocalStaleValue(k) /\ ~(RemoteValue(k) /\ RemoteWithinSoft(k)))

\* C15 (loader failure is a partial result): when the loader returns an
\* error (and with it no entries), MGet returns that error with the value and
\* valid maps the local and remote passes assembled, stale candidates in the
\* value map only, and no value record and no miss marker is written for the
\* keys the loader was asked for.
C15_LoaderFailurePartial ==
  /\ [](\A k \in Keys :
          (last.op = "MGet" /\ last.loaderOut.err /\ k \in Range(last.keys)) =>
             /\ last.err = "loader"
             /\ k \in DOMAIN last.valids <=> PassValid(k)
             /\ k \in DOMAIN last.values <=> PassHasValue(k)
             /\ PassFromLocal(k) => Returned(k, last.lruGot[k].bs.raw)
             /\ (PassHasValue(k) /\ ~PassFromLocal(k)
                  /\ last.redisGot[k].bs.ct \in {CompressionType_None, CompressionType_Snappy}) =>
                    Returned(k, Plain(last.redisGot[k].bs.raw.body)))
  /\ [][(calls' = calls + 1 /\ last'.op = "MGet" /\ last'.loaderOut.err) =>
          /\ redis' = redis
          /\ \A k \in Keys : AskedLoader(k)' => lruData'[k] = lruData[k]]_vars

\* C15 witness: the loader fails in an MGet of two keys, one answered valid
\* by a tier, the other an expired local record returned as a stale value
C15_Witness ==
  /\ last.op = "MGet" /\ last.loaderOut.err /\ last.err = "loader"
  /\ \E k, j \in Keys :
       /\ k # j /\ Valid(k)
       /\ LocalStaleValue(j) /\ AskedLoader(j)
       /\ j \in DOMAIN last.values /\ j \notin DOMAIN last.valids

\* redis holds for k the record of value v with a full hard TTL: a write of
\* v made at this instant has reached it
RedisJustWritten(k, v) ==
  /\ redis[mkRedisKey(k)].has
  /\ redis[mkRedisKey(k)].bs.fmt = "pb"
  /\ redis[mkRedisKey(k)].bs.raw.body = v.body
  /\ redis[mkRedisKey(k)].ttl = options.RedisCacheOptions.HardTimeout

\* the last call was an MGet whose loader returned without error
Loaded == last.op = "MGet" /\ last.loaderReqs # << >> /\ ~last.loaderOut.err

\* C16 (write-back failure keeps the answer): when the loader succeeds and
\* the remote write of the write-back fails (a loader result has not reached
\* redis when MGet returns), MGet returns a non-nil error, and whether the
\* write succeeds or not the returned maps hold every key the loader
\* returned, with its value and valid=true.
C16_WriteBackFailure ==
  Loaded =>
    /\ \A k \in DOMAIN last.loaderOut.values :
         Returned(k, last.loaderOut.values[k]) /\ Valid(k)
    /\ (now = last.at
        /\ \E k \in DOMAIN last.loaderOut.values :
             ~RedisJustWritten(k, last.loaderOut.values[k])) =>
          last.err = "redis"

\* C16 witness: the loader returned a value, the SET pipeline failed before
\* the record reached redis, and MGet returned the error and the value
C16_Witness ==
  /\ Loaded /\ last.err = "redis" /\ now = last.at
  /\ \E k \in DOMAIN last.loaderOut.values :
       /\ ~RedisJustWritten(k, last.loaderOut.values[k])
       /\ Returned(k, last.loaderOut.values[k]) /\ Valid(k)

\* the local tier holds for k the record of value v with a full Timeout
LocalJustWritten(k, v) ==
  /\ lruData[k].has
  /\ lruData[k].bs.fmt = "pb"
  /\ lruData[k].bs.raw = v
  /\ lruData[k].ttl = options.LRUCacheOptions.Timeout

\* C17 (MSet with a failing remote write): when MSet returns, the local tier
\* holds the new record of every given key, whether the remote write failed
\* or not; if a given pair has not reached redis, MSet has returned an error.
C17_MSetRemoteFailure ==
  (last.op = "MSet" /\ now = last.at) =>
    /\ \A k \in DOMAIN last.kvs :
         options.LRUCacheOptions.nil \/ LocalJustWritten(k, last.kvs[k])
    /\ (~options.RedisCacheOptions.nil
        /\ \E k \in DOMAIN last.kvs : ~RedisJustWritten(k, last.kvs[k])) =>
          last.err = "redis"

\* C17 witness: an MSet of two keys returned an error; the local tier holds
\* both new records and redis holds neither key
C17_Witness ==
  /\ last.op = "MSet" /\ now = last.at /\ last.err = "redis"
  /\ DOMAIN last.kvs = Keys
  /\ \A k \in Keys : LocalJustWritten(k, last.kvs[k]) /\ ~redis[mkRedisKey(k)].has

\* C18 (MDel): after MDel the local tier holds none of the given keys, until
\* the next call; when MDel returned nil redis holds none of them either;
\* when the remote delete failed MDel returned an error and redis holds for
\* each key what it held before.
C18_MDelRemoteFailure ==
  \A k \in Keys :
    (last.op = "MDel" /\ k \in Range(last.keys)) =>
       /\ ~lruData[k].has
       /\ last.err = "nil" => ~redis[mkRedisKey(k)].has
       /\ (last.err # "nil" /\ now = last.at /\ ~options.RedisCacheOptions.nil) =>
            /\ redis[mkRedisKey(k)].has <=> ~last.redisGot[k].err
            /\ redis[mkRedisKey(k)].has => redis[mkRedisKey(k)].bs = last.redisGot[k].bs

\* C18 witness: an MDel whose remote delete failed, of a key both tiers
\* held: time has passed, the local tier has lost the key, redis still has it
C18_Witness ==
  /\ last.op = "MDel" /\ last.err = "redis" /\ now > last.at
  /\ \E k \in Range(last.keys) :
       /\ LocalHeld(k) /\ ~lruData[k].has
       /\ ~last.redisGot[k].err /\ redis[mkRedisKey(k)].has

\* the GET of k returned an error: the command failed or the key was not found
RemoteGetError(k) == k \in DOMAIN last.redisGot /\ last.redisGot[k].err

\* C19 (tier read failures never surface): MGet returns a non-nil error only
\* when the loader returned one or when the write-back after a successful
\* loader call failed; a key whose GET returned an error is passed to the
\* loader, and redis contributes no value for it: what MGet returns for it
\* is the loader's entry or, failing that, the local tier's expired value.
C19_ReadFailuresHidden ==
  last.op = "MGet" =>
    /\ last.err = "loader" <=> last.loaderOut.err
    /\ last.err = "redis" => Loaded
    /\ last.err \in {"nil", "loader", "redis"}
    /\ \A k \in Keys :
         RemoteGetError(k) =>
            /\ options.Loader => AskedLoader(k)
            /\ k \notin DOMAIN last.valids \/ k \in DOMAIN last.loaderOut.values
            /\ k \in DOMAIN last.values =>
                 \/ (k \in DOMAIN last.loaderOut.values
                     /\ last.values[k] = last.loaderOut.values[k])
                 \/ (LocalStaleValue(k) /\ last.values[k] = last.lruGot[k].bs.raw)

\* C19 witness: the GET of a key failed although redis holds a record for
\* it; the key went to the loader, the loader failed too and nothing was
\* written, and the error MGet returned is the loader's
C19_Witness ==
  /\ last.op = "MGet" /\ now = last.at
  /\ last.loaderOut.err /\ last.err = "loader"
  /\ \E k \in Keys :
       /\ RemoteGetError(k) /\ AskedLoader(k)
       /\ redis[mkRedisKey(k)].has /\ redis[mkRedisKey(k)].bs.fmt = "pb"

\* redis returned for k a record whose payload decompress rejects
RemoteUndecompressible(k) ==
  /\ RemoteValue(k)
  /\ decompress(last.redisGot[k].bs.ct, last.redisGot[k].bs.raw).err

\* C20 (undecodable records are misses): a remote record whose payload
\* cannot be decompressed contributes no value and is never marked valid: its
\* key goes to the loader when one is configured, it is valid only through
\* the loader's entry, and the value returned for it, if any, is the loader's
\* or the local tier's expired one.
C20_UndecodableIsMiss ==
  \A k \in Keys :
    (last.op = "MGet" /\ RemoteUndecompressible(k)) =>
       /\ options.Loader => AskedLoader(k)
       /\ k \in DOMAIN last.valids => k \in DOMAIN last.loaderOut.values
       /\ k \in DOMAIN last.values =>
            \/ k \in DOMAIN last.loaderOut.values
            \/ (LocalStaleValue(k) /\ last.values[k] = last.lruGot[k].bs.raw)

\* k is a key of the call that neither tier resolved: no unexpired local
\* record or marker, no remote marker, no remote record within the soft TTL
Unresolved(k) ==
  /\ k \in Range(last.keys)
  /\ ~LocalFreshValue(k) /\ ~LocalLiveMarker(k)
  /\ ~RemoteMarker(k)
  /\ ~(RemoteValue(k) /\ RemoteWithinSoft(k))

\* C21 (no loader configured): an MGet on a cache without a loader makes no
\* loader call and returns a nil error; a key that neither tier resolved is
\* not in the valid map, is in the value map only with the stale candidate a
\* tier held for it, and neither tier is written for it.
C21_NoLoader ==
  [][(calls' = calls + 1 /\ last'.op = "MGet" /\ ~options.Loader) =>
       /\ last'.err = "nil"
       /\ last'.loaderReqs = << >>
       /\ \A k \in Keys :
            Unresolved(k)' =>
              /\ k \notin DOMAIN last'.valids
              /\ k \in DOMAIN last'.values =>
                   \/ (LocalStaleValue(k)' /\ last'.values[k] = last'.lruGot[k].bs.raw)
                   \/ (~LocalValue(k)' /\ RemoteValue(k)'
                       /\ last'.values[k] = decompress(last'.redisGot[k].bs.ct,
                                                       last'.redisGot[k].bs.raw).raw)
              /\ lruData'[k] = lruData[k]
              /\ redis'[mkRedisKey(k)] = redis[mkRedisKey(k)]]_vars

\* C21 witness: an MGet of two keys on a cache without a loader; one key is
\* held by no tier, the other only as an expired local record, which is
\* returned as a stale value
C21_Witness ==
  /\ last.op = "MGet" /\ ~options.Loader /\ last.err = "nil" /\ now = last.at
  /\ \E k, j \in Keys :
       /\ Unresolved(k) /\ LocalStaleValue(k)
       /\ k \in DOMAIN last.values /\ k \notin DOMAIN last.valids
       /\ Unresolved(j) /\ ~LocalHeld(j) /\ j \notin DOMAIN last.values
       /\ ~lruData[j].has /\ ~redis[mkRedisKey(j)].has

\* the configurations the validation is to reject
RejectedLRU(o) ==
  ~o.nil /\ (\/ o.Size <= 0
             \/ o.Timeout <= 0
             \/ (o.MissTimeout # 0 /\ (o.MissTimeout < Millisecond \/ o.MissTimeout >= o.Timeout)))
RejectedRedis(o) ==
  ~o.nil /\ (\/ o.Client = "nil"
             \/ o.Prefix = ""
             \/ (o.MissTimeout # 0 /\ o.MissTimeout < Millisecond))
Rejected(n, o) ==
  \/ n = ""
  \/ o = NoOptions
  \/ (o # NoOptions /\ o.LRUCacheOptions.nil /\ o.RedisCacheOptions.nil)
  \/ (o # NoOptions /\ RejectedLRU(o.LRUCacheOptions))
  \/ (o # NoOptions /\ RejectedRedis(o.RedisCacheOptions))

\* C23 (construction validation): NewCache panics exactly when the name is
\* empty, the options are nil, neither tier is configured, the local Size or
\* Timeout is not positive, the local MissTimeout is non-zero and below 1ms or
\* not below Timeout, the remote client is nil, the remote prefix is empty, or
\* the remote MissTimeout is non-zero and below 1ms; no call is made on a
\* cache before NewCache has returned it.
C23_ConstructionValidation ==
  /\ constructed = "panic" => Rejected(name, options)
  /\ constructed = "yes" => ~Rejected(name, options)
  /\ calls > 0 => constructed = "yes"

\* C23 witness: NewCache has panicked on a local MissTimeout equal to Timeout,
\* all else being valid
C23_Witness ==
  /\ constructed = "panic" /\ name # "" /\ options # NoOptions
  /\ options.RedisCacheOptions.nil /\ ~options.LRUCacheOptions.nil
  /\ options.LRUCacheOptions.Size > 0 /\ options.LRUCacheOptions.Timeout > 0
  /\ options.LRUCacheOptions.MissTimeout = options.LRUCacheOptions.Timeout

\* what caller c, inside MGet, read for k: nothing usable in the local tier
\* (no item, or an expired one) and nothing usable in redis (no entry, or a
\* value record older than the soft TTL)
SawUnresolved(c, k) ==
  /\ inflight[c].pc \in {"loader", "writeBack"}
  /\ k \in Range(inflight[c].keys)
  /\ ~inflight[c].lruGot[k].has \/ inflight[c].lruGot[k].ttl < 0
  /\ k \in DOMAIN inflight[c].t.redisGot
  /\ \/ inflight[c].t.redisGot[k].err
     \/ /\ inflight[c].t.redisGot[k].bs.fmt = "pb"
        /\ now - inflight[c].t.redisGot[k].bs.mt * Second > options.RedisCacheOptions.SoftTimeout

\* C22 (no request coalescing): a call that found a key absent or stale in
\* both tiers calls the loader for it itself, whatever another call in flight
\* has asked or holds; it is never kept waiting by the other call; and its
\* write-back stores, and the call returns, the entries its own loader call
\* gave.
C22_NoCoalescing ==
  /\ [](\A c \in Callers :
          /\ inflight[c].pc = "loader" => ENABLED mGetLoader(c)
          /\ inflight[c].pc = "writeBack" =>
               /\ ENABLED mGetWriteBack(c)
               /\ \A k \in Keys :
                    SawUnresolved(c, k) =>
                      /\ inflight[c].loaderReqs # << >>
                      /\ k \in Range(inflight[c].loaderReqs[1]))
  /\ [][\A c \in Callers :
          (inflight[c].pc = "writeBack" /\ inflight'[c].pc = "done") =>
             \A k \in DOMAIN inflight[c].out.values :
               /\ k \in DOMAIN inflight'[c].values
               /\ inflight'[c].values[k] = inflight[c].out.values[k]
               /\ k \in DOMAIN inflight'[c].valids
               /\ lruData'[k].has /\ lruData'[k].bs.fmt = "pb"
               /\ lruData'[k].bs.raw = inflight[c].out.values[k]
               /\ redis'[mkRedisKey(k)].has /\ redis'[mkRedisKey(k)].bs.fmt = "pb"
               /\ redis'[mkRedisKey(k)].bs.raw = inflight[c].out.values[k]]_vars

\* C22 witness: two calls in flight for the same key, which both found
\* expired in the local tier and gone from redis; each has called the loader
\* for it and holds an answer of its own, and neither has written back yet
C22_Witness ==
  \E k \in Keys :
    /\ \A c \in Callers :
         /\ inflight[c].pc = "writeBack"
         /\ SawUnresolved(c, k)
         /\ inflight[c].lruGot[k].has
         /\ k \in Range(inflight[c].loaderReqs[1])
         /\ k \in DOMAIN inflight[c].out.values
    /\ inflight["c1"].out.values[k] # inflight["c2"].out.values[k]

\* the steps of MGet in the order of the code
PhaseRank(ph) ==
  CASE ph = "local" -> 1 [] ph = "redis" -> 2 [] ph = "loader" -> 3 [] OTHER -> 4
\* caller c takes the step ph
Takes(c, ph) ==
  /\ inflight[c].pc \notin {"idle", "done"} \/ ph = "local"
  /\ inflight'[c].pc # "idle"
  /\ inflight'[c].phases # << >>
  /\ inflight'[c].phases[Len(inflight'[c].phases)] = ph
  /\ inflight[c].pc = "idle" \/ Len(inflight'[c].phases) = Len(inflight[c].phases) + 1

\* C25 (phase order inside one MGet): a call reads the local tier first, then
\* sends its one GET pipeline, then calls the loader, then writes back; the
\* loader is called only after the GET pipeline of the call has been answered,
\* the loader call itself writes no tier, and the write-back comes only after
\* the loader has returned.
C25_PhaseOrder ==
  /\ [](\A c \in Callers :
          inflight[c].pc # "idle" =>
            /\ \A i, j \in DOMAIN inflight[c].phases :
                 i < j => PhaseRank(inflight[c].phases[i]) < PhaseRank(inflight[c].phases[j])
            /\ inflight[c].phases # << >> /\ inflight[c].phases[1] = "local"
            /\ "loader" \in Range(inflight[c].phases) => "redis" \in Range(inflight[c].phases)
            /\ "write" \in Range(inflight[c].phases) => "loader" \in Range(inflight[c].phases))
  /\ [][\A c \in Callers :
          /\ Takes(c, "loader") =>
               /\ lruData' = lruData /\ redis' = redis
               /\ inflight[c].t.redisGets # << >>
          /\ Takes(c, "write") =>
               /\ "loader" \in Range(inflight[c].phases)
               /\ ~inflight[c].out.err]_vars

\* C25 witness: a call has returned after taking the four steps
C25_Witness ==
  \E c \in Callers :
    /\ inflight[c].pc = "done"
    /\ inflight[c].phases = <<"local", "redis", "loader", "write">>
    /\ inflight[c].err = "nil"

\* C26 (one loader call, exact key list, no retry): an MGet sends at most one
\* GET pipeline and calls the loader at most once, also when a redis round
\* trip or the loader fails; with a loader configured it calls the loader
\* exactly when some requested key was resolved by neither tier, and the
\* argument is the list of those keys in the order of the request.
C26_OneLoaderCall ==
  last.op = "MGet" =>
    /\ Len(last.redisGets) <= 1
    /\ Len(last.loaderReqs) <= 1
    /\ last.loaderReqs # << >> =>
         last.loaderReqs[1] = SelectSeq(last.keys, LAMBDA k : Unresolved(k))
    /\ (options.Loader /\ \E k \in Keys : Unresolved(k)) => last.loaderReqs # << >>

\* C26 witness: an MGet of two keys whose GET pipeline failed although redis
\* holds their records; the loader was called once, with the two keys in the
\* order of the request, and failed, and MGet returned its error
C26_Witness ==
  /\ last.op = "MGet" /\ now = last.at
  /\ last.keys = <<"k2", "k1">>
  /\ last.redisGets = <<last.keys>>
  /\ last.loaderReqs = <<last.keys>>
  /\ last.loaderOut.err /\ last.err = "loader"
  /\ \A k \in Keys :
       /\ last.redisGot[k].err
       /\ redis[mkRedisKey(k)].has /\ redis[mkRedisKey(k)].bs.fmt = "pb"

\* the loader, called without error, gave no entry for k
LoaderMiss(k) == Loaded /\ AskedLoader(k) /\ k \notin DOMAIN last.loaderOut.values

\* C27 (negative-cache write rule): when the loader confirms a miss for a
\* key, the local tier gets a miss marker with ttl MissTimeout if its
\* MissTimeout is non-zero and otherwise keeps what it held for the key, and
\* redis gets a miss marker with ttl MissTimeout if its MissTimeout is at least
\* 1ms and otherwise keeps what it held; when no configured tier caches misses,
\* the next MGet of the key calls the loader for it again.
C27_NegativeCacheWrite ==
  [][\A k \in Keys :
       /\ (calls' = calls + 1 /\ LoaderMiss(k)') =>
            /\ ~options.LRUCacheOptions.nil =>
                 IF options.LRUCacheOptions.MissTimeout # 0
                 THEN lruData'[k] = [has |-> TRUE, bs |-> missBytes,
                                     ttl |-> options.LRUCacheOptions.MissTimeout]
                 ELSE lruData'[k] = lruData[k]
            /\ ~options.RedisCacheOptions.nil =>
                 IF options.RedisCacheOptions.MissTimeout >= Millisecond
                 THEN redis'[mkRedisKey(k)] = [has |-> TRUE, bs |-> missBytes,
                                               ttl |-> options.RedisCacheOptions.MissTimeout]
                 ELSE redis'[mkRedisKey(k)] = redis[mkRedisKey(k)]
       /\ (LoaderMiss(k) /\ NegativeTTL = 0 /\ MGetStep(k)) => AskedLoader(k)']_vars

\* C27 witness: the loader has confirmed a miss for a key on a cache whose
\* local tier caches no misses; the local tier still holds its expired value
\* record, redis holds a fresh miss marker
C27_Witness ==
  \E k \in Keys :
    /\ LoaderMiss(k) /\ now = last.at
    /\ ~options.LRUCacheOptions.nil /\ options.LRUCacheOptions.MissTimeout = 0
    /\ LocalStaleValue(k) /\ lruData[k] = last.lruGot[k]
    /\ redis[mkRedisKey(k)].has /\ redis[mkRedisKey(k)].bs = missBytes
    /\ redis[mkRedisKey(k)].ttl = options.RedisCacheOptions.MissTimeout

\* the local tier has just been given the value record of v for k, and redis
\* has, under the prefixed key
WrittenThrough(k, v) ==
  /\ ~options.LRUCacheOptions.nil =>
       /\ lruData'[k].has /\ lruData'[k].bs.fmt = "pb"
       /\ lruData'[k].bs.raw = v
       /\ lruData'[k].ttl = options.LRUCacheOptions.Timeout
  /\ ~options.RedisCacheOptions.nil =>
       LET rk == options.RedisCacheOptions.Prefix \o "_" \o k
       IN /\ rk \in DOMAIN redis'
          /\ redis'[rk].has /\ redis'[rk].bs.fmt = "pb"
          /\ redis'[rk].bs.raw = compress(options.CompressionType, v)
          /\ redis'[rk].bs.ct = options.CompressionType
          /\ redis'[rk].ttl = options.RedisCacheOptions.HardTimeout

\* C28 (write-through to both tiers): an MSet that returns nil, and the
\* write-back of an MGet whose loader returned entries, leave for every pair
\* a value record in the local tier with ttl Timeout and in redis, under
\* prefix_key, with ttl HardTimeout; MSet leaves every other key of both tiers
\* as it was, so it writes no miss marker.
C28_WriteThrough ==
  [][/\ (calls' = calls + 1 /\ last'.op = "MSet" /\ last'.err = "nil") =>
          /\ \A k \in DOMAIN last'.kvs : WrittenThrough(k, last'.kvs[k])
          /\ \A k \in Keys \ DOMAIN last'.kvs :
               /\ lruData'[k] = lruData[k]
               /\ redis'[mkRedisKey(k)] = redis[mkRedisKey(k)]
     /\ (calls' = calls + 1 /\ Loaded' /\ last'.err = "nil") =>
          \A k \in DOMAIN last'.loaderOut.values : WrittenThrough(k, last'.loaderOut.values[k])
    ]_vars

\* C28 witness: an MSet of one key on a two-level cache has stored its value
\* records with their full lifetimes, and the other key's older entries are
\* as they were
C28_Witness ==
  /\ last.op = "MSet" /\ last.err = "nil" /\ now = last.at
  /\ ~options.LRUCacheOptions.nil /\ ~options.RedisCacheOptions.nil
  /\ \E k, j \in Keys :
       /\ k # j /\ DOMAIN last.kvs = {k}
       /\ LocalJustWritten(k, last.kvs[k]) /\ RedisJustWritten(k, last.kvs[k])
       /\ lruData[j].has /\ lruData[j].ttl < options.LRUCacheOptions.Timeout
       /\ redis[mkRedisKey(j)].has
       /\ redis[mkRedisKey(j)].ttl < options.RedisCacheOptions.HardTimeout

\* the last call, an MGet, resolved k from the record redis held for it
FromRemote(k) ==
  /\ last.op = "MGet" /\ last.err = "nil"
  /\ RemoteValue(k) /\ Valid(k) /\ ~AskedLoader(k)

\* C29 (remote hit warms the local tier): when MGet resolved a key from its
\* redis record, whether or not the local tier held a candidate for it, the
\* local tier then holds a value record of the value returned, with ttl
\* Timeout; an MGet of the key made next and at once returns that value with
\* valid=true from the local tier, and reads neither redis nor the loader for
\* it.
C29_RemoteHitWarmsLocal ==
  [][\A k \in Keys :
       /\ (calls' = calls + 1 /\ FromRemote(k)') =>
            /\ lruData'[k].has /\ lruData'[k].bs.fmt = "pb"
            /\ lruData'[k].bs.raw = last'.values[k]
            /\ last'.values[k] = decompress(last'.redisGot[k].bs.ct, last'.redisGot[k].bs.raw).raw
            /\ lruData'[k].ttl = options.LRUCacheOptions.Timeout
       /\ (FromRemote(k) /\ now = last.at /\ MGetStep(k)) =>
            /\ LocalFreshValue(k)'
            /\ k \in DOMAIN last'.values /\ last'.values[k] = last.values[k]
            /\ Valid(k)'
            /\ ~AskedRedis(k)' /\ ~AskedLoader(k)']_vars

\* C29 witness: in a process whose local tier started empty, an MGet has been
\* answered by the local tier from a record with its full ttl, while the
\* redis record of the key is older: the local record was written by the MGet
\* before, from the redis record, and no expired local record was there then,
\* as a local record expires no sooner than redis drops its own
C29_Witness ==
  /\ constructed = "again" /\ calls = 3
  /\ options.LRUCacheOptions.Timeout + 1 >= options.RedisCacheOptions.HardTimeout
  /\ last.op = "MGet" /\ now = last.at
  /\ \E k \in Keys :
       /\ last.keys = <<k>>
       /\ LocalFreshValue(k) /\ Valid(k) /\ ~AskedRedis(k)
       /\ last.lruGot[k].ttl = options.LRUCacheOptions.Timeout
       /\ redis[mkRedisKey(k)].has
       /\ redis[mkRedisKey(k)].ttl < options.RedisCacheOptions.HardTimeout

\* redis returned for k a value record that decompresses and is older than
\* the soft timeout
RemoteStale(k) ==
  /\ last.op = "MGet"
  /\ RemoteValue(k) /\ ~RemoteWithinSoft(k)
  /\ ~decompress(last.redisGot[k].bs.ct, last.redisGot[k].bs.raw).err

\* C30 (remote stale triggers refresh): a key whose redis record is older
\* than the soft timeout is passed to the loader when one is configured; if
\* the loader returns a value for it, MGet returns that value with valid=true
\* and, the write-back succeeding, both tiers hold it with full lifetimes; if
\* the loader returns an error, MGet returns the stale value, the local
\* tier's if it held one and else the redis record's, and not as valid.
C30_RemoteStaleRefresh ==
  /\ [](\A k \in Keys :
          RemoteStale(k) =>
            /\ options.Loader => AskedLoader(k)
            /\ k \in DOMAIN last.loaderOut.values =>
                 Returned(k, last.loaderOut.values[k]) /\ Valid(k)
            /\ last.loaderOut.err =>
                 /\ k \notin DOMAIN last.valids
                 /\ Returned(k, IF LocalStaleValue(k) THEN last.lruGot[k].bs.raw
                                ELSE decompress(last.redisGot[k].bs.ct,
                                                last.redisGot[k].bs.raw).raw))
  /\ [][\A k \in Keys :
          (calls' = calls + 1 /\ RemoteStale(k)' /\ last'.err = "nil"
             /\ k \in DOMAIN last'.loaderOut.values) =>
               WrittenThrough(k, last'.loaderOut.values[k])]_vars

\* C30 witness: the redis record of a key was older than the soft timeout,
\* and the loader returned another value for the key: MGet returned the
\* loader's value as valid and redis holds it with its full lifetime
C30_Witness ==
  \E k \in Keys :
    /\ RemoteStale(k) /\ now = last.at /\ last.err = "nil"
    /\ k \in DOMAIN last.loaderOut.values
    /\ last.loaderOut.values[k] #
         decompress(last.redisGot[k].bs.ct, last.redisGot[k].bs.raw).raw
    /\ Returned(k, last.loaderOut.values[k]) /\ Valid(k)
    /\ RedisJustWritten(k, last.loaderOut.values[k])


\* the local store holds k and at least as many items stored after it as
\* the store has room for
FilledFirst(k) ==
  /\ lruData[k].has
  /\ Cardinality({j \in HeldKeys(lruData) : FilledBefore(lruData, k, j)})
       >= options.LRUCacheOptions.Size

LocalExpiredMarker(k) ==
  LocalHeld(k) /\ last.lruGot[k].bs = missBytes /\ last.lruGot[k].ttl < 0

\* C31 (expired local miss marker falls through): a key of an MGet whose
\* local entry is an expired miss marker is sent to redis when there is one,
\* is passed to the loader when redis does not resolve it, and has a value in
\* the result only from redis or from the loader.
C31_ExpiredMarkerFallsThrough ==
  \A k \in Keys :
    (last.op = "MGet" /\ LocalExpiredMarker(k)) =>
       /\ ~options.RedisCacheOptions.nil => AskedRedis(k)
       /\ (Unresolved(k) /\ options.Loader) => AskedLoader(k)
       /\ k \in DOMAIN last.values =>
            \/ /\ k \in DOMAIN last.loaderOut.values
               /\ last.values[k] = last.loaderOut.values[k]
            \/ /\ RemoteValue(k)
               /\ last.values[k] = decompress(last.redisGot[k].bs.ct,
                                              last.redisGot[k].bs.raw).raw

\* C31 witness: on a two-level cache the local marker of a key had expired,
\* redis had nothing for the key, and the loader, asked, gave a value that
\* MGet returned as valid
C31_Witness ==
  \E k \in Keys :
    /\ last.op = "MGet" /\ LocalExpiredMarker(k)
    /\ ~options.RedisCacheOptions.nil /\ AskedRedis(k) /\ last.redisGot[k].err
    /\ AskedLoader(k) /\ k \in DOMAIN last.loaderOut.values
    /\ Returned(k, last.loaderOut.values[k]) /\ Valid(k)


\* the write stamp of a tier's entry, -1 when the entry is no value record
StampOf(e) == IF e.has /\ e.bs.fmt = "pb" THEN e.bs.mt ELSE -1

\* C32 (write timestamps monotonic per key): in each tier, when a value
\* record of a key is replaced by another value record, the write stamp of
\* the new one is not less than that of the old one, whatever the
\* interleaving of MSet calls and MGet write-backs.
C32_MonotonicStamps ==
  [][\A k \in Keys :
       /\ (StampOf(lruData[k]) >= 0 /\ StampOf(lruData'[k]) >= 0) =>
            StampOf(lruData'[k]) >= StampOf(lruData[k])
       /\ (StampOf(redis[mkRedisKey(k)]) >= 0 /\ StampOf(redis'[mkRedisKey(k)]) >= 0) =>
            StampOf(redis'[mkRedisKey(k)]) >= StampOf(redis[mkRedisKey(k)])]_vars


\* caller c, inside the write-back of an MGet, takes a step of it
WriteBackStepOf(c) ==
  /\ inflight[c].pc \in {"writeBack", "mgetExec"}
  /\ inflight'[c].pc # inflight[c].pc

\* C33 (a completed MDel is not undone by an in-flight read): once an MDel
\* of k has returned, no write-back step of an MGet whose loader call had
\* returned when the MDel started changes the entry of k in either tier.
C33_DeleteNotUndone ==
  [][\A c, d \in Callers : \A k \in Keys :
       (/\ inflight[d].pc = "mdelDone" /\ k \in inflight[d].keys /\ c \in inflight[d].early
        /\ WriteBackStepOf(c)) =>
          /\ lruData'[k] = lruData[k]
          /\ redis'[mkRedisKey(k)] = redis[mkRedisKey(k)]]_vars

\* the value a tier's entry holds is v
LocalHolds(l, k, v) == l[k].has /\ l[k].bs.fmt = "pb" /\ l[k].bs.raw = v
RemoteHolds(r, k, v) ==
  /\ r[mkRedisKey(k)].has /\ r[mkRedisKey(k)].bs.fmt = "pb"
  /\ decompress(r[mkRedisKey(k)].bs.ct, r[mkRedisKey(k)].bs.raw).raw = v

\* C34 (a completed MSet is not overwritten by an older fill): once an MSet
\* of k with v has returned, a tier that holds v for k still holds v after
\* any write-back step of an MGet whose loader call had returned when the
\* MSet started.
C34_SetNotOverwritten ==
  [][\A c, d \in Callers : \A k \in Keys :
       (/\ inflight[d].pc = "msetDone" /\ k \in DOMAIN inflight[d].kvs /\ c \in inflight[d].early
        /\ WriteBackStepOf(c)) =>
          /\ LocalHolds(lruData, k, inflight[d].kvs[k]) =>
               LocalHolds(lruData', k, inflight[d].kvs[k])
          /\ RemoteHolds(redis, k, inflight[d].kvs[k]) =>
               RemoteHolds(redis', k, inflight[d].kvs[k])]_vars

\* C35 (tiers agree after concurrent writes): when every caller's MSet of a
\* key has returned and both tiers still hold a live entry for the key, the
\* local record and the redis record hold the same value.
C35_TiersAgree ==
  \A k \in Keys :
    (/\ \A c \in Callers : inflight[c].pc = "msetDone" /\ k \in DOMAIN inflight[c].kvs
     /\ lruData[k].has /\ ~Expired(lruData[k])
     /\ redis[mkRedisKey(k)].has) =>
       \E v \in {Plain(x) : x \in Values} : LocalHolds(lruData, k, v) /\ RemoteHolds(redis, k, v)


\* C36 (a stale local value is never re-armed as fresh): an MGet stores a
\* value record in the local tier only for a key the loader gave a value for
\* or whose redis record is a value within the soft timeout; in particular
\* not for a key whose local value had expired and whose redis entry is a
\* miss marker, and no later MGet returns such a value as valid.
C36_NoRearm ==
  [][\A k \in Keys :
       (/\ calls' = calls + 1 /\ last'.op = "MGet"
        /\ lruData'[k] # lruData[k] /\ lruData'[k].has /\ lruData'[k].bs.fmt = "pb") =>
          \/ k \in DOMAIN last'.loaderOut.values /\ ~last'.loaderOut.err
          \/ RemoteValue(k)' /\ RemoteWithinSoft(k)']_vars


\* softTTL + freshTTL, each counted when its tier is configured
StalenessBound ==
  (IF options.LRUCacheOptions.nil THEN 0 ELSE options.LRUCacheOptions.Timeout)
  + (IF options.RedisCacheOptions.nil THEN 0 ELSE options.RedisCacheOptions.SoftTimeout)

\* C37 (bounded staleness of valid answers): no MGet returns with valid=true
\* a value that was given to MSet more than softTTL + freshTTL before the
\* call: the value given at StartTime and never produced again is not
\* returned as valid later than that.
C37_BoundedStaleness ==
  \A k \in Keys :
    (last.op = "MGet" /\ Valid(k) /\ Returned(k, FirstValue)) =>
       last.at - StartTime <= StalenessBound


\* redis holds for k a value record the codec can decode; the time since it
\* was written is what has run off its hard TTL
RemoteRecord(k) ==
  /\ ~options.RedisCacheOptions.nil
  /\ redis[mkRedisKey(k)].has
  /\ redis[mkRedisKey(k)].bs.fmt = "pb"
  /\ redis[mkRedisKey(k)].bs.ct \in {CompressionType_None, CompressionType_Snappy}
  /\ redis[mkRedisKey(k)].ttl > 0
SinceWrite(k) == options.RedisCacheOptions.HardTimeout - redis[mkRedisKey(k)].ttl

\* C38 (soft-TTL age is the true elapsed time): a redis record read back
\* strictly less than SoftTimeout after it was written is returned as valid
\* and not passed to the loader; one read back more than SoftTimeout after it
\* was written is not returned as valid from redis and is passed to the
\* loader, if there is one.
C38_SoftAgeIsElapsed ==
  [][\A k \in Keys :
       (MGetStep(k) /\ AskedRedis(k)' /\ RemoteRecord(k)) =>
          /\ SinceWrite(k) < options.RedisCacheOptions.SoftTimeout =>
               Valid(k)' /\ ~AskedLoader(k)'
          /\ SinceWrite(k) > options.RedisCacheOptions.SoftTimeout =>
               /\ options.Loader => AskedLoader(k)'
               /\ Valid(k)' => k \in DOMAIN last'.loaderOut.values]_vars


\* C39 (result-map invariant): in what MGet returns, every key of the valid
\* map maps to true and has an entry in the value map, and a key with an
\* entry in the value map and none in the valid map carries a stale value:
\* the local tier's expired value, or else the value of a redis record older
\* than the soft timeout.
C39_ResultMaps ==
  (last.op = "MGet" /\ ~last.isNil) =>
     /\ \A k \in DOMAIN last.valids : last.valids[k] = TRUE /\ k \in DOMAIN last.values
     /\ \A k \in (DOMAIN last.values) \ (DOMAIN last.valids) :
          \/ LocalStaleValue(k) /\ last.values[k] = last.lruGot[k].bs.raw
          \/ /\ ~LocalValue(k) /\ RemoteValue(k) /\ ~RemoteWithinSoft(k)
             /\ last.values[k] = decompress(last.redisGot[k].bs.ct,
                                            last.redisGot[k].bs.raw).raw

\* C39 witness: an MGet of two keys returned one as valid and the other,
\* whose refresh failed, with the expired value of the local tier and no
\* entry in the valid map
C39_Witness ==
  /\ last.op = "MGet"
  /\ \E k, j \in Keys :
       /\ Valid(k) /\ k \in DOMAIN last.values
       /\ j \in DOMAIN last.values /\ j \notin DOMAIN last.valids
       /\ LocalStaleValue(j) /\ last.loaderOut.err


\* C40 (results and write-back are confined to the request): every key of
\* the value map and of the valid map MGet returns is a requested key, and
\* an MGet changes no redis entry of a key it did not pass to the loader and
\* no local entry of a key that was not requested, whatever keys the
\* loader's result holds.
C40_ConfinedToRequest ==
  /\ [](last.op = "MGet" =>
          /\ DOMAIN last.values \subseteq Range(last.keys)
          /\ DOMAIN last.valids \subseteq Range(last.keys))
  /\ [][(calls' = calls + 1 /\ last'.op = "MGet") =>
          \A k \in Keys :
            ~AskedLoader(k)' =>
              /\ redis'[mkRedisKey(k)] = redis[mkRedisKey(k)]
              /\ k \notin Range(last'.keys) => lruData'[k] = lruData[k]]_vars

====
